---- MODULE Spec2Model ----
(***************************************************************************)
(* A model of the markdown formatter's text pipeline.                      *)
(*                                                                         *)
(* Strings are TLA+ strings; a character is a string of length one.  The   *)
(* JavaScript source indexes from 0 and so do the cursors below: the       *)
(* character or line at JavaScript index k is read with CharAt / LineAt.   *)
(* Every regular expression of the source is written out as the scan the   *)
(* regular-expression engine performs (greedy runs, lazy runs, leftmost    *)
(* match, global replace resuming after each match).                       *)
(***************************************************************************)
EXTENDS Integers, Sequences, FiniteSets, TLC

VARIABLES
    options,    \* MarkdownParser.options
    markdown,   \* the argument of the running / last parse call, as its lines
    headings,   \* MarkdownParser.headings
    footnotes,  \* MarkdownParser.footnotes, entries in insertion order
    stack,      \* the parseBlocks activations, innermost last
    pc,         \* "idle", "extracted", "blocks", "done"
    result,     \* what the last parse call returned ("" while one is running)
    call,       \* the last call of HTMLOptimizer, toPlainText or DiagramHandler
    exporter,   \* DocumentExporter: filename, and the file name of its last export
    renderer,   \* DiagramHandler and the mermaid engine: the running mermaidToSvg /
                \* renderMermaidPlaceholders call and its promises
    clipboard,  \* ClipboardManager: lastCopied, copyHistory, the running copy
                \* operation, and the copyHistory key of chrome.storage.local
    storage,    \* StorageManager: settings, listeners, the running save call,
                \* and the settings written to chrome.storage.sync / localStorage
    app         \* MarkdownFormatterApp: settings, the input, the preview, the
                \* timers it has set, and the copy operations of its key events

\* the objects next to the parser and its callers
others == <<exporter, renderer, clipboard, storage, app>>

\* the parser, its callers, and the objects next to one object
parserVars == <<options, markdown, headings, footnotes, stack, pc, result, call>>
besidesExporter == <<renderer, clipboard, storage, app>>
besidesRenderer == <<exporter, clipboard, storage, app>>
besidesClipboard == <<exporter, renderer, storage, app>>
besidesStorage == <<exporter, renderer, clipboard, app>>
besidesApp == <<exporter, renderer, clipboard, storage>>

vars == <<options, markdown, headings, footnotes, stack, pc, result, call, others>>

----------------------------------------------------------------------------
(* Characters and strings *)

Lower == {"a","b","c","d","e","f","g","h","i","j","k","l","m",
          "n","o","p","q","r","s","t","u","v","w","x","y","z"}
Upper == {"A","B","C","D","E","F","G","H","I","J","K","L","M",
          "N","O","P","Q","R","S","T","U","V","W","X","Y","Z"}
Digit == {"0","1","2","3","4","5","6","7","8","9"}

\* The grave accent.  The lexer of TLA+ takes it inside a string only when an
\* apostrophe follows, so it is cut out of such a string.
BackTick == SubSeq("`'", 1, 1)
\* the marker of a fenced code block
Fence == BackTick \o BackTick \o BackTick

\* \s of the regular expressions
WhiteSpace == {" ", "\t", "\n"}
\* \w
WordChar == Lower \cup Upper \cup Digit \cup {"_"}
\* the line terminator that . does not match
LineTerminator == {"\n"}

\* the character at JavaScript index k of s ("" outside the string)
CharAt(s, k) == IF k >= 0 /\ k < Len(s) THEN SubSeq(s, k + 1, k + 1) ELSE ""
\* s.substring(from, to), 0-based, to exclusive
Sub(s, from, to) == IF from >= to THEN "" ELSE SubSeq(s, from + 1, to)
\* s.substring(from)
From(s, from) == Sub(s, from, Len(s))
\* whether literal lit occurs in s at index k
HasAt(s, lit, k) == k >= 0 /\ k + Len(lit) <= Len(s) /\ Sub(s, k, k + Len(lit)) = lit
StartsWith(s, lit) == HasAt(s, lit, 0)
EndsWith(s, lit) == HasAt(s, lit, Len(s) - Len(lit))

\* the least element of a non-empty set of integers
Min(S) == CHOOSE x \in S : \A y \in S : x <= y

\* the index after the longest run, from index k on, of characters in set cs
RunIn(s, k, cs) ==
    IF k >= Len(s) THEN k
    ELSE Min({j \in k..Len(s) : j = Len(s) \/ CharAt(s, j) \notin cs})

\* the index after the longest run, from index k on, of characters not in cs
RunNotIn(s, k, cs) ==
    IF k >= Len(s) THEN k
    ELSE Min({j \in k..Len(s) : j = Len(s) \/ CharAt(s, j) \in cs})

\* String.prototype.indexOf(lit, k): the least index >= k at which lit
\* occurs in s, or -1
IndexOf(s, lit, k) ==
    LET at == {j \in k..(Len(s) - Len(lit)) : HasAt(s, lit, j)}
    IN IF at = {} THEN -1 ELSE Min(at)

Includes(s, lit) == IndexOf(s, lit, 0) >= 0

\* String.prototype.trim
TrimEnd(s) ==
    LET keep == {j \in 1..Len(s) : CharAt(s, j - 1) \notin WhiteSpace}
    IN IF keep = {} THEN "" ELSE Sub(s, 0, CHOOSE x \in keep : \A y \in keep : y <= x)
Trim(s) == TrimEnd(From(s, RunIn(s, 0, WhiteSpace)))

\* String.prototype.split(sep) for a one-character separator
RECURSIVE Split(_, _)
Split(s, sep) ==
    LET k == IndexOf(s, sep, 0) IN
    IF k < 0 THEN <<s>> ELSE <<Sub(s, 0, k)>> \o Split(From(s, k + 1), sep)

\* Array.prototype.join(sep)
RECURSIVE Join(_, _)
Join(parts, sep) ==
    IF Len(parts) = 0 THEN ""
    ELSE IF Len(parts) = 1 THEN parts[1]
    ELSE parts[1] \o sep \o Join(Tail(parts), sep)

\* /open([^x]+)close/ at index k, x the characters of stop: the index after
\* the match or -1.  The run is greedy and cannot give back what it took when
\* close starts with a character of stop.
DelimitedEnd(s, k, open, stop, close, min) ==
    IF ~HasAt(s, open, k) THEN -1
    ELSE LET b == k + Len(open)
             e == RunNotIn(s, b, stop)
         IN IF e - b >= min /\ HasAt(s, close, e) THEN e + Len(close) ELSE -1

\* the least index j >= k with close at j and no line terminator in s[k..j)
LazyClose(s, k, close) ==
    LET j == IndexOf(s, close, k)
    IN IF j >= 0 /\ RunNotIn(s, k, LineTerminator) >= j THEN j ELSE -1

\* /open(.+?)close/ at index k: the index after the match or -1
LazyEnd(s, k, open, close) ==
    IF ~HasAt(s, open, k) THEN -1
    ELSE LET b == k + Len(open) IN
         IF b >= Len(s) \/ CharAt(s, b) \in LineTerminator THEN -1
         ELSE LET j == LazyClose(s, b + 1, close) IN
              IF j < 0 THEN -1 ELSE j + Len(close)

\* String.prototype.toLowerCase on the letters A-Z
LowerOf(c) ==
    CASE c = "A" -> "a" [] c = "B" -> "b" [] c = "C" -> "c" [] c = "D" -> "d"
      [] c = "E" -> "e" [] c = "F" -> "f" [] c = "G" -> "g" [] c = "H" -> "h"
      [] c = "I" -> "i" [] c = "J" -> "j" [] c = "K" -> "k" [] c = "L" -> "l"
      [] c = "M" -> "m" [] c = "N" -> "n" [] c = "O" -> "o" [] c = "P" -> "p"
      [] c = "Q" -> "q" [] c = "R" -> "r" [] c = "S" -> "s" [] c = "T" -> "t"
      [] c = "U" -> "u" [] c = "V" -> "v" [] c = "W" -> "w" [] c = "X" -> "x"
      [] c = "Y" -> "y" [] c = "Z" -> "z" [] OTHER -> c

\* the index after the character at k when it is in cs, else -1
OneOf(s, k, cs) == IF CharAt(s, k) \in cs THEN k + 1 ELSE -1
\* the index after the run of characters of cs that starts at k, else -1
RunOf(s, k, cs) == IF CharAt(s, k) \in cs THEN RunIn(s, k, cs) ELSE -1

\* the number a string of decimal digits writes
DigitValue(c) ==
    CASE c = "0" -> 0 [] c = "1" -> 1 [] c = "2" -> 2 [] c = "3" -> 3 [] c = "4" -> 4
      [] c = "5" -> 5 [] c = "6" -> 6 [] c = "7" -> 7 [] c = "8" -> 8 [] OTHER -> 9

RECURSIVE KeyValue(_)
KeyValue(id) ==
    IF id = "" THEN 0
    ELSE 10 * KeyValue(Sub(id, 0, Len(id) - 1)) + DigitValue(CharAt(id, Len(id) - 1))

\* /^-|-$/g -> '': one leading and one trailing hyphen
StripEdgeHyphens(s) ==
    LET a == IF StartsWith(s, "-") THEN From(s, 1) ELSE s
    IN IF EndsWith(a, "-") THEN Sub(a, 0, Len(a) - 1) ELSE a

----------------------------------------------------------------------------
(* MarkdownParser: options, styles, escaping, slugs *)

\* The style table of the constructor, by tag.
Styles(tag) ==
    CASE tag = "h1" -> "font-size:24px;font-weight:bold;margin:20px 0 10px 0;line-height:1.3;"
      [] tag = "h2" -> "font-size:20px;font-weight:bold;margin:18px 0 9px 0;line-height:1.3;"
      [] tag = "h3" -> "font-size:16px;font-weight:bold;margin:16px 0 8px 0;line-height:1.3;"
      [] tag = "h4" -> "font-size:14px;font-weight:bold;margin:14px 0 7px 0;line-height:1.3;"
      [] tag = "h5" -> "font-size:12px;font-weight:bold;margin:12px 0 6px 0;line-height:1.3;"
      [] tag = "h6" -> "font-size:11px;font-weight:bold;margin:10px 0 5px 0;line-height:1.3;"
      [] tag = "p" -> "margin:0 0 12px 0;line-height:1.6;"
      [] tag = "ul" -> "margin:0 0 12px 0;padding-left:24px;"
      [] tag = "ol" -> "margin:0 0 12px 0;padding-left:24px;"
      [] tag = "li" -> "margin:0 0 4px 0;line-height:1.5;"
      [] tag = "blockquote" -> "margin:0 0 12px 0;padding:10px 20px;border-left:4px solid #e0e0e0;background:#f9f9f9;color:#555;"
      [] tag = "code" -> "font-family:\"SF Mono\",\"Fira Code\",\"Consolas\",monospace;font-size:0.9em;background:#f4f4f4;padding:2px 6px;border-radius:3px;"
      [] tag = "pre" -> "font-family:\"SF Mono\",\"Fira Code\",\"Consolas\",monospace;font-size:0.9em;background:#f4f4f4;padding:16px;border-radius:6px;overflow-x:auto;margin:0 0 12px 0;line-height:1.4;"
      [] tag = "table" -> "border-collapse:collapse;margin:0 0 12px 0;width:100%;"
      [] tag = "th" -> "border:1px solid #ddd;padding:10px 12px;background:#f5f5f5;font-weight:bold;text-align:left;"
      [] tag = "td" -> "border:1px solid #ddd;padding:10px 12px;"
      [] tag = "hr" -> "border:none;border-top:2px solid #e0e0e0;margin:24px 0;"
      [] tag = "a" -> "color:#1a73e8;text-decoration:underline;"
      [] tag = "img" -> "max-width:100%;height:auto;margin:8px 0;"
      [] OTHER -> ""

\* ` style="..."` when styles are included, else nothing
StyleAttr(opt, css) == IF opt.includeStyles THEN " style=\"" \o css \o "\"" ELSE ""

wrapTag(opt, tag, content, selfClosing) ==
    LET style == IF opt.includeStyles /\ Styles(tag) # ""
                 THEN " style=\"" \o Styles(tag) \o "\"" ELSE ""
    IN IF selfClosing THEN "<" \o tag \o style \o ">"
       ELSE "<" \o tag \o style \o ">" \o content \o "</" \o tag \o ">"

EscapeChar(c) ==
    CASE c = "&" -> "&amp;"
      [] c = "<" -> "&lt;"
      [] c = ">" -> "&gt;"
      [] c = "\"" -> "&quot;"
      [] c = "'" -> "&#39;"
      [] OTHER -> c

HtmlSpecial == {"&", "<", ">", "\"", "'"}

----------------------------------------------------------------------------
(* MarkdownParser.parseInline: the cascade of global replacements *)

ImageEnd(s, k) ==
    IF ~HasAt(s, "![", k) THEN -1
    ELSE LET a == RunNotIn(s, k + 2, {"]"}) IN
         IF ~HasAt(s, "](", a) THEN -1
         ELSE LET u == RunNotIn(s, a + 2, {")"}) IN
              IF u - (a + 2) >= 1 /\ HasAt(s, ")", u) THEN u + 1 ELSE -1

ImageRepl(opt, s, k, e) ==
    LET a == RunNotIn(s, k + 2, {"]"}) IN
    "<img src=\"" \o Sub(s, a + 2, e - 1) \o "\" alt=\"" \o Sub(s, k + 2, a) \o "\""
        \o StyleAttr(opt, Styles("img")) \o ">"

LinkEnd(s, k) ==
    IF ~HasAt(s, "[", k) THEN -1
    ELSE LET a == RunNotIn(s, k + 1, {"]"}) IN
         IF a - (k + 1) < 1 \/ ~HasAt(s, "](", a) THEN -1
         ELSE LET u == RunNotIn(s, a + 2, {")"}) IN
              IF u - (a + 2) >= 1 /\ HasAt(s, ")", u) THEN u + 1 ELSE -1

LinkRepl(opt, s, k, e) ==
    LET a == RunNotIn(s, k + 1, {"]"}) IN
    "<a href=\"" \o Sub(s, a + 2, e - 1) \o "\"" \o StyleAttr(opt, Styles("a")) \o ">"
        \o Sub(s, k + 1, a) \o "</a>"

\* the characters an autolinked URL may not end with
UrlTailStop == {".", ",", ";", ":", "!", "?", "\"", "'", ")", "]"}

\* the greatest e in (lo, hi] with s[e-1] outside UrlTailStop, or -1
RECURSIVE UrlTail(_, _, _)
UrlTail(s, lo, hi) ==
    IF hi <= lo THEN -1
    ELSE IF CharAt(s, hi - 1) \notin UrlTailStop THEN hi
    ELSE UrlTail(s, lo, hi - 1)

\* /(?<!["=>])(https?:\/\/[^\s<]+[^\s<.,;:!?"')\]])/
AutolinkEnd(s, k) ==
    IF k > 0 /\ CharAt(s, k - 1) \in {"\"", "=", ">"} THEN -1
    ELSE LET b == IF HasAt(s, "https://", k) THEN k + 8
                  ELSE IF HasAt(s, "http://", k) THEN k + 7 ELSE -1
         IN IF b < 0 THEN -1
            ELSE UrlTail(s, b + 1, RunNotIn(s, b, WhiteSpace \cup {"<"}))

AutolinkRepl(opt, s, k, e) ==
    "<a href=\"" \o Sub(s, k, e) \o "\"" \o StyleAttr(opt, Styles("a")) \o ">"
        \o Sub(s, k, e) \o "</a>"

HighlightEnd(s, k) == DelimitedEnd(s, k, "==", {"="}, "==", 1)

HighlightRepl(opt, s, k, e) ==
    "<mark" \o StyleAttr(opt, "background:#fff3cd;padding:2px 4px;") \o ">"
        \o Sub(s, k + 2, e - 2) \o "</mark>"

\* /\[\^(\w+)\]/
FootnoteRefEnd(s, k) ==
    IF ~HasAt(s, "[^", k) THEN -1
    ELSE LET e == RunIn(s, k + 2, WordChar) IN
         IF e > k + 2 /\ HasAt(s, "]", e) THEN e + 1 ELSE -1

FootnoteRefRepl(opt, s, k, e) ==
    LET id == Sub(s, k + 2, e - 1) IN
    "<sup" \o StyleAttr(opt, "color:#1a73e8;font-size:0.8em;vertical-align:super;")
        \o "><a href=\"#fn-" \o id \o "\" id=\"fnref-" \o id \o "\">[" \o id \o "]</a></sup>"

SuperscriptEnd(s, k) == DelimitedEnd(s, k, "^", {"^"}, "^", 1)

\* /(?<!~)~([^~]+)~(?!~)/
SubscriptEnd(s, k) ==
    IF k > 0 /\ CharAt(s, k - 1) = "~" THEN -1
    ELSE LET e == DelimitedEnd(s, k, "~", {"~"}, "~", 1) IN
         IF e < 0 \/ CharAt(s, e) = "~" THEN -1 ELSE e

\* the text between an opening and a closing marker of n characters each
Inner(s, k, e, n) == Sub(s, k + n, e - n)

Tagged(tag, content) == "<" \o tag \o ">" \o content \o "</" \o tag \o ">"

CodeSpanEnd(s, k) == DelimitedEnd(s, k, BackTick, {BackTick}, BackTick, 1)

CodeSpanRepl(opt, s, k, e) ==
    "<code" \o StyleAttr(opt, Styles("code")) \o ">" \o Inner(s, k, e, 1) \o "</code>"

LiteralEnd(s, k, lit) == IF HasAt(s, lit, k) THEN k + Len(lit) ELSE -1

\* The typographer's characters.  The lexer of TLA+ takes no character of the
\* U+2000 block inside a string, so each is written as a Latin-1 character
\* that occurs nowhere else in the model.
EmDash == "¯"            \* U+2014
EnDash == "¬"            \* U+2013
Ellipsis == "·"          \* U+2026
LeftDoubleQuote == "«"   \* U+201C
RightDoubleQuote == "»"  \* U+201D
LeftSingleQuote == "¡"   \* U+2018
RightSingleQuote == "´"  \* U+2019

----------------------------------------------------------------------------
(* The patterns of HTMLOptimizer and of MarkdownParser.toPlainText.  With   *)
(* the i flag a literal of the pattern, written in lower case here, matches *)
(* either case of each letter.                                              *)

\* whether literal lit (lower case) occurs in s at index k, letter case ignored
HasAtCI(s, lit, k) ==
    /\ k >= 0 /\ k + Len(lit) <= Len(s)
    /\ \A j \in 0..(Len(lit) - 1) : LowerOf(CharAt(s, k + j)) = CharAt(lit, j)

\* the least index >= k at which lit occurs in s, letter case ignored, or -1
IndexOfCI(s, lit, k) ==
    LET at == {j \in k..(Len(s) - Len(lit)) : HasAtCI(s, lit, j)}
    IN IF at = {} THEN -1 ELSE Min(at)

\* /\s+(class|id)="[^"]*"/gi and /\s+on\w+=Q[^Q]*Q/gi at index k: the index
\* after the attribute's name, or -1
AttributeNameEnd(p, s, k) ==
    LET w == RunIn(s, k, WhiteSpace) IN
    IF w = k THEN -1
    ELSE IF p.handler
         THEN IF HasAtCI(s, "on", w) /\ RunIn(s, w + 2, WordChar) > w + 2
              THEN RunIn(s, w + 2, WordChar) ELSE -1
         ELSE IF HasAtCI(s, "class", w) THEN w + 5
              ELSE IF HasAtCI(s, "id", w) THEN w + 2 ELSE -1

AttributeEnd(p, s, k) ==
    LET n == AttributeNameEnd(p, s, k) IN
    IF n < 0 \/ ~HasAt(s, "=" \o p.quote, n) THEN -1
    ELSE LET v == RunNotIn(s, n + 2, {p.quote})
         IN IF HasAt(s, p.quote, v) THEN v + 1 ELSE -1

\* /name:[^;]+;/gi, and /border:[^;]*solid[^;]*;/gi when p.holding = "solid"
PropertyEnd(p, s, k) ==
    IF ~HasAtCI(s, p.name \o ":", k) THEN -1
    ELSE LET b == k + Len(p.name) + 1
             e == RunNotIn(s, b, {";"})
         IN IF CharAt(s, e) # ";" THEN -1
            ELSE IF p.holding = ""
                 THEN (IF e > b THEN e + 1 ELSE -1)
                 ELSE IF \E j \in b..(e - Len(p.holding)) : HasAtCI(s, p.holding, j)
                      THEN e + 1 ELSE -1

\* /font-size:\s*(\d+(?:\.\d+)?)(em|rem|%)/gi: where the number starts, where
\* its integer part and the whole of it end, and where the unit ends (-1 when
\* there is no match at k)
FontSizeUnitEnd(s, f) ==
    IF HasAtCI(s, "em", f) THEN f + 2
    ELSE IF HasAtCI(s, "rem", f) THEN f + 3
    ELSE IF HasAt(s, "%", f) THEN f + 1 ELSE -1
FontSizeUnit(s, k, w, d, f) ==
    [number |-> w, point |-> d, unit |-> f,
     end |-> IF HasAtCI(s, "font-size:", k) /\ d > w THEN FontSizeUnitEnd(s, f) ELSE -1]
FontSizeFractionEnd(s, d, e) == IF CharAt(s, d) = "." /\ e > d + 1 THEN e ELSE d
FontSizeFraction(s, k, w, d) ==
    FontSizeUnit(s, k, w, d, FontSizeFractionEnd(s, d, RunIn(s, d + 1, Digit)))
FontSizeNumber(s, k, w) == FontSizeFraction(s, k, w, RunIn(s, w, Digit))
FontSizeParts(s, k) == FontSizeNumber(s, k, RunIn(s, k + 10, WhiteSpace))

RECURSIVE PowerOfTen(_)
PowerOfTen(n) == IF n = 0 THEN 1 ELSE 10 * PowerOfTen(n - 1)

\* Math.round(num / den) for num >= 0, den > 0
RoundRatio(num, den) == (2 * num + den) \div (2 * den)

\* the replacement callback of the font-size pass: parseFloat(size), times 16
\* for em and rem (compared in lower case only), per cent of 16 for %,
\* rounded
FontSizePixels(unit, value, den) ==
    IF unit = "em" \/ unit = "rem" THEN RoundRatio(16 * value, den)
    ELSE IF unit = "%" THEN RoundRatio(16 * value, 100 * den)
    ELSE RoundRatio(value, den)
\* the digits of the number, without its point, and how many follow the point
FontSizeDigits(s, parts) ==
    Sub(s, parts.number, parts.point)
    \o (IF parts.unit > parts.point THEN Sub(s, parts.point + 1, parts.unit) ELSE "")
FontSizeDecimals(parts) ==
    IF parts.unit > parts.point THEN parts.unit - parts.point - 1 ELSE 0
FontSizeText(s, parts) ==
    "font-size:"
    \o ToString(FontSizePixels(Sub(s, parts.unit, parts.end),
                               KeyValue(FontSizeDigits(s, parts)),
                               PowerOfTen(FontSizeDecimals(parts))))
    \o "px"
FontSizeRepl(s, k) == FontSizeText(s, FontSizeParts(s, k))

\* /<tag([^>]*)>/gi, and /<tag([^>]*[^/])>/gi when p.unclosed: the index after
\* the captured text, or -1.  [^/] takes a > as well, when a second > follows.
OpenTagCaptureEnd(p, s, k) ==
    IF ~HasAtCI(s, "<" \o p.tag, k) THEN -1
    ELSE LET b == k + 1 + Len(p.tag)
             e == RunNotIn(s, b, {">"})
         IN IF e >= Len(s) THEN -1
            ELSE IF ~p.unclosed THEN e
            ELSE IF CharAt(s, e + 1) = ">" THEN e + 1
            ELSE IF e > b /\ CharAt(s, e - 1) # "/" THEN e
            ELSE -1

\* /<pre([^>]*)><code([^>]*)>/gi: the index of the > that ends the match, or -1
PreCodeEnd(s, k) ==
    IF ~HasAtCI(s, "<pre", k) THEN -1
    ELSE LET a == RunNotIn(s, k + 4, {">"}) IN
         IF ~HasAtCI(s, "><code", a) THEN -1
         ELSE LET c == RunNotIn(s, a + 6, {">"})
              IN IF c < Len(s) THEN c ELSE -1

\* /open([^<]+)close/gi: the index at which close starts, or -1
ElementTextEnd(s, b, close) ==
    LET e == RunNotIn(s, b, {"<"})
    IN IF e > b /\ HasAtCI(s, close, e) THEN e ELSE -1

\* /<a[^>]+href="([^"]+)"[^>]*>([^<]+)<\/a>/gi with href=" at index j: the
\* index at which </a> starts, or -1
SlackLinkTextEnd(s, j) ==
    LET u == RunNotIn(s, j + 6, {"\""})
        t == RunNotIn(s, u + 1, {">"})
    IN IF u > j + 6 /\ CharAt(s, u) = "\"" /\ CharAt(s, t) = ">"
       THEN ElementTextEnd(s, t + 1, "</a>") ELSE -1

\* the index of the href=" the pattern settles on for a match that starts at
\* k, or -1: [^>]+ is greedy, so it is the last one of the tag that fits
SlackLinkHref(s, k) ==
    LET r == RunNotIn(s, k + 2, {">"})
        at == {j \in (k + 3)..r : HasAtCI(s, "href=\"", j) /\ SlackLinkTextEnd(s, j) >= 0}
    IN IF ~HasAtCI(s, "<a", k) \/ at = {} THEN -1
       ELSE CHOOSE j \in at : \A i \in at : i <= j

SlackLinkRepl(s, k) ==
    LET j == SlackLinkHref(s, k)
        u == RunNotIn(s, j + 6, {"\""})
        t == RunNotIn(s, u + 1, {">"})
    IN "<" \o Sub(s, j + 6, u) \o "|" \o Sub(s, t + 1, SlackLinkTextEnd(s, j)) \o ">"

\* /<\/?(name|...)[^>]*>/gi
NamedTagEnd(p, s, k) ==
    IF CharAt(s, k) # "<" THEN -1
    ELSE LET b == IF CharAt(s, k + 1) = "/" THEN k + 2 ELSE k + 1
             e == RunNotIn(s, b, {">"})
         IN IF e < Len(s) /\ \E name \in p.names : HasAtCI(s, name, b) /\ b + Len(name) <= e
            THEN e + 1 ELSE -1

\* /<tag\s*\/?>/gi
VoidTagEnd(p, s, k) ==
    IF ~HasAtCI(s, "<" \o p.tag, k) THEN -1
    ELSE LET w == RunIn(s, k + 1 + Len(p.tag), WhiteSpace)
             c == IF CharAt(s, w) = "/" THEN w + 1 ELSE w
         IN IF CharAt(s, c) = ">" THEN c + 1 ELSE -1

\* /<p[^>]*>\s*<\/p>/gi
EmptyParagraphEnd(s, k) ==
    IF ~HasAtCI(s, "<p", k) THEN -1
    ELSE LET e == RunNotIn(s, k + 2, {">"})
             w == RunIn(s, e + 1, WhiteSpace)
         IN IF e < Len(s) /\ HasAtCI(s, "</p>", w) THEN w + 4 ELSE -1

\* />\s+</g
BetweenTagsEnd(s, k) ==
    LET w == RunIn(s, k + 1, WhiteSpace)
    IN IF CharAt(s, k) = ">" /\ w > k + 1 /\ CharAt(s, w) = "<" THEN w + 1 ELSE -1

\* /<script\b[^<]*(?:(?!<\/script>)<[^<]*)*<\/script>/gi: from <script, at a
\* word boundary, to the first </script> after it
ScriptEnd(s, k) ==
    IF ~HasAtCI(s, "<script", k) \/ CharAt(s, k + 7) \in WordChar THEN -1
    ELSE LET c == IndexOfCI(s, "</script>", k + 7)
         IN IF c < 0 THEN -1 ELSE c + 9

Quotes == {"\"", "'"}

\* /attr\s*=\s*["']scheme(?!unless)[^"']*["']/gi
UrlAttributeEnd(p, s, k) ==
    IF ~HasAtCI(s, p.attr, k) THEN -1
    ELSE LET a == RunIn(s, k + Len(p.attr), WhiteSpace)
             q == RunIn(s, a + 1, WhiteSpace)
             u == q + 1 + Len(p.scheme)
             v == RunNotIn(s, u, Quotes)
         IN IF /\ CharAt(s, a) = "=" /\ CharAt(s, q) \in Quotes
               /\ HasAtCI(s, p.scheme, q + 1)
               /\ (p.unless = "" \/ ~HasAtCI(s, p.unless, u))
               /\ CharAt(s, v) \in Quotes
            THEN v + 1 ELSE -1

\* /\+[-]+\+/
BoxEdgeEnd(s, k) ==
    LET e == RunIn(s, k + 1, {"-"})
    IN IF CharAt(s, k) = "+" /\ e > k + 1 /\ CharAt(s, e) = "+" THEN e + 1 ELSE -1

LabelOpen == {"[", "(", "{", "<"}
LabelClose == {"]", ")", "}", ">"}

\* /\+[-]+\+|[\[\(\{<]([^\]\)\}>]+)[\]\)\}>]/
NodeEnd(s, k) ==
    IF BoxEdgeEnd(s, k) >= 0 THEN BoxEdgeEnd(s, k)
    ELSE LET e == RunNotIn(s, k + 1, LabelClose)
         IN IF CharAt(s, k) \in LabelOpen /\ e > k + 1 /\ e < Len(s) THEN e + 1 ELSE -1

\* the emphasis pass /open(.+?)close/g -> <tag>$1</tag>, open = close = mark
EmphasisPass(mark, before, after) ==
    [kind |-> "lazy", mark |-> mark, before |-> before, after |-> after]

\* The global replacements of the source, each a pattern record p.
\* MatchEnd(p, s, k) is the index after the match of p that starts at index k
\* of s (-1 when none starts there); no pattern of the source matches the
\* empty string.
MatchEnd(p, s, k) ==
    CASE p.kind = "escape" -> OneOf(s, k, HtmlSpecial)
      [] p.kind = "lower" -> OneOf(s, k, Upper)
      [] p.kind = "runs" -> RunOf(s, k, p.cs)
      [] p.kind = "outside" -> IF CharAt(s, k) \notin p.cs THEN RunNotIn(s, k, p.cs) ELSE -1
      [] p.kind = "image" -> ImageEnd(s, k)
      [] p.kind = "link" -> LinkEnd(s, k)
      [] p.kind = "autolink" -> AutolinkEnd(s, k)
      [] p.kind = "highlight" -> HighlightEnd(s, k)
      [] p.kind = "footnoteRef" -> FootnoteRefEnd(s, k)
      [] p.kind = "superscript" -> SuperscriptEnd(s, k)
      [] p.kind = "subscript" -> SubscriptEnd(s, k)
      [] p.kind = "lazy" -> LazyEnd(s, k, p.mark, p.mark)
      [] p.kind = "code" -> CodeSpanEnd(s, k)
      [] p.kind = "literal" -> LiteralEnd(s, k, p.lit)
      [] p.kind = "quoted" -> DelimitedEnd(s, k, p.quote, {p.quote}, p.quote, 1)

\* the text that replaces the match s[k..e) of p
Replacement(p, s, k, e) ==
    CASE p.kind = "escape" -> EscapeChar(CharAt(s, k))
      [] p.kind = "lower" -> LowerOf(CharAt(s, k))
      [] p.kind = "runs" -> p.rep
      [] p.kind = "outside" -> p.rep
      [] p.kind = "image" -> ImageRepl(p.opt, s, k, e)
      [] p.kind = "link" -> LinkRepl(p.opt, s, k, e)
      [] p.kind = "autolink" -> AutolinkRepl(p.opt, s, k, e)
      [] p.kind = "highlight" -> HighlightRepl(p.opt, s, k, e)
      [] p.kind = "footnoteRef" -> FootnoteRefRepl(p.opt, s, k, e)
      [] p.kind = "superscript" -> Tagged("sup", Inner(s, k, e, 1))
      [] p.kind = "subscript" -> Tagged("sub", Inner(s, k, e, 1))
      [] p.kind = "lazy" -> p.before \o Inner(s, k, e, Len(p.mark)) \o p.after
      [] p.kind = "code" -> CodeSpanRepl(p.opt, s, k, e)
      [] p.kind = "literal" -> p.rep
      [] p.kind = "quoted" -> p.left \o Inner(s, k, e, 1) \o p.right

\* String.prototype.replace(regex with the g flag, replacement): the leftmost
\* match is replaced and the scan resumes after it.
RECURSIVE ReplaceFrom(_, _, _)
ReplaceMatch(p, s, k, m, e) ==
    Sub(s, k, m) \o Replacement(p, s, m, e) \o ReplaceFrom(p, s, e)
ReplaceLeftmost(p, s, k, m) == ReplaceMatch(p, s, k, m, MatchEnd(p, s, m))
ReplaceAmong(p, s, k, starts) ==
    IF starts = {} THEN From(s, k) ELSE ReplaceLeftmost(p, s, k, Min(starts))
ReplaceFrom(p, s, k) ==
    ReplaceAmong(p, s, k, {j \in k..(Len(s) - 1) : MatchEnd(p, s, j) > j})
ReplaceAll(p, s) == ReplaceFrom(p, s, 0)

\* a cascade of global replacements, applied in order
RECURSIVE ApplyPasses(_, _)
ApplyPasses(passes, s) ==
    IF Len(passes) = 0 THEN s ELSE ApplyPasses(Tail(passes), ReplaceAll(Head(passes), s))

\* e + n where a sub-pattern ended at e, -1 where it did not match
EndAfter(e, n) == IF e < 0 THEN -1 ELSE e + n

\* /[cs]{min,}/
LongRunEnd(s, k, cs, min) == IF RunIn(s, k, cs) - k >= min THEN RunIn(s, k, cs) ELSE -1

\* /open([^<]+)close/gi at k
ElementEnd(s, k, open, close) ==
    IF HasAtCI(s, open, k) THEN EndAfter(ElementTextEnd(s, k + Len(open), close), Len(close))
    ELSE -1

\* /<pre[^>]*><code[^>]*>([^<]+)<\/code><\/pre>/gi, the opening tags ending at c
PreBlockEnd(s, c) ==
    IF c < 0 THEN -1 ELSE EndAfter(ElementTextEnd(s, c + 1, "</code></pre>"), 13)

\* the slack link pattern with href=" settled at j
SlackLinkEnd(s, j) == IF j < 0 THEN -1 ELSE SlackLinkTextEnd(s, j) + 4

\* the patterns of HTMLOptimizer and of toPlainText: the index after the match
\* of p that starts at k, or -1
TagMatchEnd(p, s, k) ==
    CASE p.kind = "literal" -> LiteralEnd(s, k, p.lit)
      [] p.kind = "literalCI" -> IF HasAtCI(s, p.lit, k) THEN k + Len(p.lit) ELSE -1
      [] p.kind = "longRun" -> LongRunEnd(s, k, p.cs, p.min)
      [] p.kind = "attribute" -> AttributeEnd(p, s, k)
      [] p.kind = "property" -> PropertyEnd(p, s, k)
      [] p.kind = "fontSize" -> FontSizeParts(s, k).end
      [] p.kind = "openTag" -> EndAfter(OpenTagCaptureEnd(p, s, k), 1)
      [] p.kind = "preCode" -> EndAfter(PreCodeEnd(s, k), 1)
      [] p.kind = "element" -> ElementEnd(s, k, p.open, p.close)
      [] p.kind = "preBlock" -> PreBlockEnd(s, PreCodeEnd(s, k))
      [] p.kind = "slackLink" -> SlackLinkEnd(s, SlackLinkHref(s, k))
      [] p.kind = "namedTag" -> NamedTagEnd(p, s, k)
      [] p.kind = "voidTag" -> VoidTagEnd(p, s, k)
      [] p.kind = "anyTag" -> DelimitedEnd(s, k, "<", {">"}, ">", 1)
      [] p.kind = "emptyParagraph" -> EmptyParagraphEnd(s, k)
      [] p.kind = "betweenTags" -> BetweenTagsEnd(s, k)
      [] p.kind = "script" -> ScriptEnd(s, k)
      [] p.kind = "urlAttribute" -> UrlAttributeEnd(p, s, k)

\* `<pre$1 style><code$2>` where the attributes of pre end at a
PreCodeRepl(p, s, k, a, e) ==
    "<pre" \o Sub(s, k + 4, a) \o p.style \o "><code" \o Sub(s, a + 6, e - 1) \o ">"

\* the text that replaces the match s[k..e) of p
TagReplacement(p, s, k, e) ==
    CASE p.kind = "fontSize" -> FontSizeRepl(s, k)
      [] p.kind = "openTag" ->
             "<" \o p.tag \o Sub(s, k + 1 + Len(p.tag), OpenTagCaptureEnd(p, s, k)) \o p.tail
      [] p.kind = "preCode" -> PreCodeRepl(p, s, k, RunNotIn(s, k + 4, {">"}), e)
      [] p.kind = "element" ->
             p.mark \o Sub(s, k + Len(p.open), e - Len(p.close)) \o p.mark
      [] p.kind = "preBlock" -> Fence \o Sub(s, PreCodeEnd(s, k) + 1, e - 13) \o Fence
      [] p.kind = "slackLink" -> SlackLinkRepl(s, k)
      [] p.kind \in {"attribute", "anyTag", "emptyParagraph", "script"} -> ""
      [] p.kind = "namedTag" -> "\n"
      [] p.kind = "betweenTags" -> "><"
      [] OTHER -> p.rep

\* String.prototype.replace with one of these patterns and the g flag; ends
\* gives, for every index from k on, where the match that starts there ends
RECURSIVE ReplaceTagsFrom(_, _, _)
ReplaceTagMatch(p, s, k, m, e) ==
    Sub(s, k, m) \o TagReplacement(p, s, m, e) \o ReplaceTagsFrom(p, s, e)
ReplaceTagsAt(p, s, k, ends, starts) ==
    IF starts = {} THEN From(s, k)
    ELSE ReplaceTagMatch(p, s, k, Min(starts), ends[Min(starts)])
ReplaceTagsAmong(p, s, k, ends) ==
    ReplaceTagsAt(p, s, k, ends, {j \in DOMAIN ends : ends[j] > j})
ReplaceTagsFrom(p, s, k) ==
    ReplaceTagsAmong(p, s, k, [j \in k..(Len(s) - 1) |-> TagMatchEnd(p, s, j)])
ReplaceTags(p, s) == ReplaceTagsFrom(p, s, 0)

\* a cascade of these replacements, applied in order (none of the patterns
\* matches in the empty string)
RECURSIVE ApplyTagPasses(_, _)
ApplyTagPasses(passes, s) ==
    IF Len(passes) = 0 \/ s = "" THEN s
    ELSE ApplyTagPasses(Tail(passes), ReplaceTags(Head(passes), s))

escapeHtml(text) == ReplaceAll([kind |-> "escape"], text)

\* the characters slugify keeps: [a-z0-9\s-]
SlugKeep == Lower \cup Digit \cup WhiteSpace \cup {"-"}

slugify(text) ==
    StripEdgeHyphens(
        ApplyPasses(<< [kind |-> "lower"],
                       [kind |-> "outside", cs |-> SlugKeep, rep |-> ""],
                       [kind |-> "runs", cs |-> WhiteSpace, rep |-> "-"],
                       [kind |-> "runs", cs |-> {"-"}, rep |-> "-"] >>, text))

\* the formatting characters generateTOC strips from a heading's text:
\* /\*\*|__|\*|_|`/g
TocFormatting == {"*", "_", BackTick}

\* the heading text generateTOC shows and slugs
TocText(rawText) == ReplaceAll([kind |-> "runs", cs |-> TocFormatting, rep |-> ""], rawText)

\* the slug of a table-of-contents link
TocSlug(text) ==
    StripEdgeHyphens(
        ApplyPasses(<< [kind |-> "lower"],
                       [kind |-> "outside", cs |-> Lower \cup Digit, rep |-> "-"] >>, text))

\* the replacements of parseInline after the escaping, in source order
LinkPasses(opt) ==
    << [kind |-> "image", opt |-> opt], [kind |-> "link", opt |-> opt] >>
        \o (IF opt.linkify THEN << [kind |-> "autolink", opt |-> opt] >> ELSE << >>)

MarkPasses(opt) ==
    << [kind |-> "highlight", opt |-> opt], [kind |-> "footnoteRef", opt |-> opt],
       [kind |-> "superscript"], [kind |-> "subscript"] >>

EmphasisPasses ==
    << EmphasisPass("***", "<strong><em>", "</em></strong>"),
       EmphasisPass("___", "<strong><em>", "</em></strong>"),
       EmphasisPass("**", "<strong>", "</strong>"),
       EmphasisPass("__", "<strong>", "</strong>"),
       EmphasisPass("*", "<em>", "</em>"),
       EmphasisPass("_", "<em>", "</em>"),
       EmphasisPass("~~", "<del>", "</del>") >>

CodePasses(opt) == << [kind |-> "code", opt |-> opt] >>

TypographerPasses(opt) ==
    IF opt.typographer
    THEN << [kind |-> "literal", lit |-> "---", rep |-> EmDash],
            [kind |-> "literal", lit |-> "--", rep |-> EnDash],
            [kind |-> "literal", lit |-> "...", rep |-> Ellipsis],
            [kind |-> "quoted", quote |-> "\"",
             left |-> LeftDoubleQuote, right |-> RightDoubleQuote],
            [kind |-> "quoted", quote |-> "'",
             left |-> LeftSingleQuote, right |-> RightSingleQuote] >>
    ELSE << >>

InlinePasses(opt) ==
    << [kind |-> "escape"] >> \o LinkPasses(opt) \o MarkPasses(opt) \o EmphasisPasses
        \o CodePasses(opt) \o TypographerPasses(opt)

parseInline(opt, text) ==
    IF text = "" THEN "" ELSE ApplyPasses(InlinePasses(opt), text)

----------------------------------------------------------------------------
(* MarkdownParser.toPlainText *)

\* /<\/?(p|div|h[1-6]|li|tr|blockquote)[^>]*>/gi -> '\n'
BlockTagPass ==
    [kind |-> "namedTag",
     names |-> {"p", "div", "h1", "h2", "h3", "h4", "h5", "h6", "li", "tr", "blockquote"}]
\* /<\/?(ul|ol)[^>]*>/gi -> '\n'
ListTagPass == [kind |-> "namedTag", names |-> {"ul", "ol"}]
\* /<br\s*\/?>/gi -> '\n'
BreakPass == [kind |-> "voidTag", tag |-> "br", rep |-> "\n"]
\* /\n{3,}/g -> '\n\n'
BlankLinesPass == [kind |-> "longRun", cs |-> {"\n"}, min |-> 3, rep |-> "\n\n"]

Decode(entity, char) == [kind |-> "literal", lit |-> entity, rep |-> char]

toPlainText(html) ==
    Trim(ApplyTagPasses(<< BlockTagPass, BreakPass,
                        [kind |-> "voidTag", tag |-> "hr", rep |-> "\n---\n"],
                        ListTagPass, [kind |-> "anyTag"],
                        Decode("&amp;", "&"), Decode("&lt;", "<"), Decode("&gt;", ">"),
                        Decode("&quot;", "\""), Decode("&#39;", "'"), Decode("&nbsp;", " "),
                        BlankLinesPass >>, html))

----------------------------------------------------------------------------
(* HTMLOptimizer *)

\* /\s+(class|id)="[^"]*"/gi -> ''
ClassAndIdPass == [kind |-> "attribute", handler |-> FALSE, quote |-> "\""]

\* /name:[^;]+;/gi -> rep
Property(name, rep) == [kind |-> "property", name |-> name, holding |-> "", rep |-> rep]

\* new RegExp(`<${tag}([^>]*[^/])>`, 'gi') -> `<${tag}$1 />`
SelfClose(tag) == [kind |-> "openTag", tag |-> tag, unclosed |-> TRUE, tail |-> " />"]

ensureProperNesting(html) ==
    ApplyTagPasses(<< SelfClose("br"), SelfClose("hr"), SelfClose("img"),
                   SelfClose("input"), SelfClose("meta"), SelfClose("link") >>, html)

cleanWhitespace(html) == ReplaceTags([kind |-> "betweenTags"], html)

optimizeUniversal(html) ==
    cleanWhitespace(ensureProperNesting(ReplaceTags(ClassAndIdPass, html)))

optimizeForGoogleDocs(html) ==
    ensureProperNesting(
        ApplyTagPasses(<< ClassAndIdPass,
                       Property("font-family", "font-family:Arial,sans-serif;"),
                       [kind |-> "fontSize"],
                       Property("box-shadow", ""), Property("text-shadow", ""),
                       Property("transform", ""), Property("transition", ""),
                       [kind |-> "property", name |-> "border", holding |-> "solid",
                        rep |-> "border:1px solid #000000;"],
                       [kind |-> "openTag", tag |-> "blockquote", unclosed |-> FALSE,
                        tail |-> "><div style=\"padding-left:16px;border-left:4px solid #cccccc;\">"],
                       [kind |-> "literalCI", lit |-> "</blockquote>",
                        rep |-> "</div></blockquote>"],
                       [kind |-> "emptyParagraph"] >>, html))

\* the wrapper document the source builds is never used
optimizeForWord(html) ==
    ApplyTagPasses(<< Property("border-radius", ""),
                   [kind |-> "preCode",
                    style |-> " style=\"font-family:Consolas,monospace;background-color:#f0f0f0;padding:10px;\""],
                   [kind |-> "openTag", tag |-> "table", unclosed |-> FALSE,
                    tail |-> " border=\"1\" cellpadding=\"5\" cellspacing=\"0\">"] >>, html)

optimizeForNotion(html) ==
    ensureProperNesting(
        ApplyTagPasses(<< Property("background", ""), Property("background-color", "") >>, html))

\* Object.entries(entities).forEach: the entities in the order they are written
decodeEntities(text) ==
    ApplyTagPasses(<< Decode("&amp;", "&"), Decode("&lt;", "<"), Decode("&gt;", ">"),
                   Decode("&quot;", "\""), Decode("&#39;", "'"), Decode("&nbsp;", " "),
                   Decode("&mdash;", EmDash), Decode("&ndash;", EnDash),
                   Decode("&hellip;", Ellipsis),
                   Decode("&ldquo;", LeftDoubleQuote), Decode("&rdquo;", RightDoubleQuote),
                   Decode("&lsquo;", LeftSingleQuote), Decode("&rsquo;", RightSingleQuote) >>,
                text)

\* /<tag>([^<]+)<\/tag>/gi -> mark $1 mark
Element(tag, mark) ==
    [kind |-> "element", open |-> "<" \o tag \o ">", close |-> "</" \o tag \o ">",
     mark |-> mark]

optimizeForSlack(html) ==
    Trim(ReplaceTags(BlankLinesPass,
        decodeEntities(
            ApplyTagPasses(<< Element("strong", "*"), Element("b", "*"),
                           Element("em", "_"), Element("i", "_"),
                           Element("del", "~"), Element("s", "~"),
                           Element("code", BackTick),
                           [kind |-> "preBlock"], [kind |-> "slackLink"],
                           BlockTagPass, BreakPass, ListTagPass,
                           [kind |-> "anyTag"] >>, html))))

sanitize(html) ==
    ApplyTagPasses(<< [kind |-> "script"],
                   [kind |-> "attribute", handler |-> TRUE, quote |-> "\""],
                   [kind |-> "attribute", handler |-> TRUE, quote |-> "'"],
                   [kind |-> "urlAttribute", attr |-> "href", scheme |-> "javascript:",
                    unless |-> "", rep |-> "href=\"#\""],
                   [kind |-> "urlAttribute", attr |-> "src", scheme |-> "data:",
                    unless |-> "image/", rep |-> "src=\"\""] >>, html)

\* what a call gives back: a string, an object that is no string, or nothing
\* because it threw
Returned(value) == [threw |-> FALSE, type |-> "string", value |-> value]
Thrown == [threw |-> TRUE, type |-> "undefined", value |-> ""]

\* the keys of this.platforms
RegisteredPlatforms == {"google-docs", "microsoft-word", "notion", "slack", "universal"}

\* this.platforms[platform] || this.platforms.universal, called with html.
\* this.platforms is an object literal: a name it does not hold is looked up
\* in Object.prototype, whose members are truthy and are called, unbound, in
\* place of the fallback.  Object(html) is a String object, toString gives
\* the tag of undefined, valueOf throws on undefined, and __proto__ is no
\* function.
optimize(html, platform) ==
    CASE platform = "google-docs" -> Returned(optimizeForGoogleDocs(html))
      [] platform = "microsoft-word" -> Returned(optimizeForWord(html))
      [] platform = "notion" -> Returned(optimizeForNotion(html))
      [] platform = "slack" -> Returned(optimizeForSlack(html))
      [] platform = "universal" -> Returned(optimizeUniversal(html))
      [] platform = "constructor" -> [threw |-> FALSE, type |-> "object", value |-> html]
      [] platform = "toString" -> Returned("[object Undefined]")
      [] platform \in {"valueOf", "__proto__"} -> Thrown
      [] OTHER -> Returned(optimizeUniversal(html))

----------------------------------------------------------------------------
(* DiagramHandler: detection of ASCII diagrams, conversion to Mermaid *)

\* The box-drawing characters of asciiPatterns.boxDrawing.  The lexer of TLA+
\* takes no character of the U+2500 block inside a string: the horizontal and
\* the vertical line, which the source also tests one by one, and the other
\* characters of the class are written as three Latin-1 characters that occur
\* nowhere else in the model.
BoxHorizontal == "¤"     \* U+2500
BoxVertical == "¦"       \* U+2502
BoxJunction == "¶"       \* the corners, tees and double lines of the class
BoxDrawing == {BoxHorizontal, BoxVertical, BoxJunction}
\* asciiPatterns.simpleBox
SimpleBox == {"+", "-", "|"}
\* asciiPatterns.arrows
ArrowGlyphs == {"←", "→", "↑", "↓", "↔", "↕", "⇐", "⇒", "⇑", "⇓", "<", ">", "^", "v"}

\* the characters of s
Chars(s) == {CharAt(s, j) : j \in 0..(Len(s) - 1)}

RECURSIVE SumOf(_)
SumOf(ns) == IF Len(ns) = 0 THEN 0 ELSE ns[1] + SumOf(Tail(ns))

\* /[|]\s*[|]/
PipesEnd(s, k, e) == IF CharAt(s, k) = "|" /\ CharAt(s, e) = "|" THEN e + 1 ELSE -1

\* the patterns of hasRepeatedStructure: the index after the match of p that
\* starts at k, or -1
StructureEnd(p, s, k) ==
    CASE p.kind = "longRun" -> LongRunEnd(s, k, p.cs, p.min)
      [] p.kind = "pipes" -> PipesEnd(s, k, RunIn(s, k + 1, WhiteSpace))
      [] p.kind = "boxEdge" -> BoxEdgeEnd(s, k)

\* the number of matches String.prototype.match gives with a g pattern
RECURSIVE CountFrom(_, _, _)
CountAfter(p, s, ends, starts) ==
    IF starts = {} THEN 0 ELSE 1 + CountFrom(p, s, ends[Min(starts)])
CountAmong(p, s, ends) == CountAfter(p, s, ends, {j \in DOMAIN ends : ends[j] > j})
CountFrom(p, s, k) == CountAmong(p, s, [j \in k..(Len(s) - 1) |-> StructureEnd(p, s, j)])
CountMatches(p, s) == CountFrom(p, s, 0)

\* variance < avgLength * 0.5 over the lengths of the lines that are not
\* blank, in whole numbers: with n lengths of sum S, the variance is the sum
\* of (n * len - S)^2 over n^3 and the average is S over n
\* lines.filter(l => l.trim().length > 0)
RECURSIVE NonEmptyLines(_)
NonEmptyLines(lines) ==
    IF Len(lines) = 0 THEN <<>>
    ELSE (IF Trim(lines[1]) # "" THEN <<lines[1]>> ELSE <<>>) \o NonEmptyLines(Tail(lines))

hasConsistentLineWidth(lines) ==
    LET nonEmpty == NonEmptyLines(lines)
        n == Len(nonEmpty)
        S == SumOf([k \in 1..n |-> Len(nonEmpty[k])])
    IN n >= 2
       /\ 2 * SumOf([k \in 1..n |-> (n * Len(nonEmpty[k]) - S) * (n * Len(nonEmpty[k]) - S)])
              < S * n * n

\* the patterns of hasRepeatedStructure, in source order
StructurePatterns ==
    << [kind |-> "longRun", cs |-> {"-"}, min |-> 3],
       [kind |-> "longRun", cs |-> {"="}, min |-> 3],
       [kind |-> "pipes"],
       [kind |-> "boxEdge"],
       [kind |-> "longRun", cs |-> {BoxHorizontal}, min |-> 3],
       [kind |-> "longRun", cs |-> {BoxVertical}, min |-> 1] >>

hasRepeatedStructure(text) ==
    Cardinality({k \in 1..Len(StructurePatterns) :
                    CountMatches(StructurePatterns[k], text) >= 2}) >= 2

\* the indexes of the pipes of a line
PipePositions(line) ==
    {j \in 0..(Len(line) - 1) : CharAt(line, j) \in {"|", BoxVertical}}

\* the lines that hold a pipe
RECURSIVE PipedLines(_)
PipedLines(lines) ==
    IF Len(lines) = 0 THEN <<>>
    ELSE (IF PipePositions(lines[1]) # {} THEN <<lines[1]>> ELSE <<>>)
         \o PipedLines(Tail(lines))

hasAlignedElements(lines) ==
    LET piped == PipedLines(lines)
    IN /\ Len(lines) >= 3
       /\ Len(piped) >= 2
       /\ SumOf([k \in 1..(Len(piped) - 1) |->
                    Cardinality(PipePositions(piped[1]) \cap PipePositions(piped[k + 1]))]) >= 2

\* the score isAsciiDiagram gives a text that is not blank
DiagramScore(text) ==
    LET lines == Split(text, "\n") IN
      (IF Len(lines) >= 3 THEN 1 ELSE 0)
    + (IF hasConsistentLineWidth(lines) THEN 2 ELSE 0)
    + (IF Chars(text) \cap (BoxDrawing \cup SimpleBox) # {} THEN 3 ELSE 0)
    + (IF Chars(text) \cap ArrowGlyphs # {} THEN 2 ELSE 0)
    + (IF hasRepeatedStructure(text) THEN 2 ELSE 0)
    + (IF hasAlignedElements(lines) THEN 2 ELSE 0)
    + (IF Includes(text, "+--") \/ Includes(text, "|  ") THEN 2 ELSE 0)
    + (IF Includes(text, "-->") \/ Includes(text, "<--") THEN 2 ELSE 0)
    + (IF Includes(text, "===") \/ Includes(text, "---") THEN 1 ELSE 0)

isAsciiDiagram(text) ==
    IF text = "" \/ Trim(text) = "" THEN FALSE ELSE DiagramScore(text) >= 4

\* match[1] || match[0] of the match s[k..e) of the node pattern, cleaned:
\* text.replace(/[-+|]/g, '').trim()
RECURSIVE Without(_, _)
Without(s, cs) ==
    IF s = "" THEN ""
    ELSE (IF CharAt(s, 0) \in cs THEN "" ELSE Sub(s, 0, 1)) \o Without(From(s, 1), cs)

CleanText(s, k, e) ==
    Trim(Without(IF BoxEdgeEnd(s, k) >= 0 THEN Sub(s, k, e) ELSE Sub(s, k + 1, e - 1),
                 SimpleBox))

\* nodeMap after the matches of one line, from index k on: the clean texts in
\* the order they were first met
RECURSIVE NodesOfLine(_, _, _)
NodesWith(line, nodes, e, cleanText) ==
    NodesOfLine(line, e,
        IF cleanText # "" /\ \A i \in 1..Len(nodes) : nodes[i] # cleanText
        THEN Append(nodes, cleanText) ELSE nodes)
NodesMatch(line, nodes, m, e) == NodesWith(line, nodes, e, CleanText(line, m, e))
NodesAfter(line, nodes, ends, starts) ==
    IF starts = {} THEN nodes ELSE NodesMatch(line, nodes, Min(starts), ends[Min(starts)])
NodesAmong(line, nodes, ends) ==
    NodesAfter(line, nodes, ends, {j \in DOMAIN ends : ends[j] > j})
NodesOfLine(line, k, nodes) ==
    NodesAmong(line, nodes, [j \in k..(Len(line) - 1) |-> NodeEnd(line, j)])

RECURSIVE NodesOf(_, _)
NodesOf(lines, nodes) ==
    IF Len(lines) = 0 THEN nodes
    ELSE NodesOf(Tail(lines), NodesOfLine(lines[1], 0, nodes))

\* arrowPatterns, in source order.  find is the shortest text the pattern
\* matches: the second hyphen of /--?>/ and of /<--?/ is optional, and a
\* longer arrow holds the shorter one where it ends or starts.
ArrowPatterns ==
    << [find |-> "->", direction |-> "-->"], [find |-> "<-", direction |-> "<--"],
       [find |-> "==>", direction |-> "==>"], [find |-> "<==", direction |-> "<=="],
       [find |-> "-.->", direction |-> "-.->"], [find |-> "<-.-", direction |-> "<-.-"] >>

\* new RegExp(text1 + '.*?' + arrow + '.*?' + text2, 's').test(fullText)
ArrowBetween(fullText, text1, find, text2) ==
    LET a == IndexOf(fullText, text1, 0)
        b == IF a < 0 THEN -1 ELSE IndexOf(fullText, find, a + Len(text1))
    IN b >= 0 /\ IndexOf(fullText, text2, b + Len(find)) >= 0

\* the three nested loops over nodeMap, nodeMap and arrowPatterns, step n
RECURSIVE ConnectionsFrom(_, _, _)
ConnectionsFrom(fullText, nodes, n) ==
    LET count == Len(nodes)
        i == n \div (count * 6)
        j == (n \div 6) % count
        arrow == ArrowPatterns[(n % 6) + 1]
    IN IF n >= count * count * 6 THEN <<>>
       ELSE (IF i # j /\ ArrowBetween(fullText, nodes[i + 1], arrow.find, nodes[j + 1])
             THEN <<[from |-> i, to |-> j, type |-> arrow.direction]>> ELSE <<>>)
            \o ConnectionsFrom(fullText, nodes, n + 1)

NodeId(i) == "node" \o ToString(i)

RECURSIVE NodeLines(_, _)
NodeLines(nodes, i) ==
    IF i >= Len(nodes) THEN ""
    ELSE "    " \o NodeId(i) \o "[\"" \o nodes[i + 1] \o "\"]\n" \o NodeLines(nodes, i + 1)

RECURSIVE ConnectionLines(_)
ConnectionLines(connections) ==
    IF Len(connections) = 0 THEN ""
    ELSE "    " \o NodeId(connections[1].from) \o " " \o connections[1].type \o " "
         \o NodeId(connections[1].to) \o "\n" \o ConnectionLines(Tail(connections))

\* the linear chain that stands in for connections
RECURSIVE ChainLines(_, _)
ChainLines(count, i) ==
    IF i >= count - 1 THEN ""
    ELSE "    " \o NodeId(i) \o " --> " \o NodeId(i + 1) \o "\n" \o ChainLines(count, i + 1)

NullValue == [threw |-> FALSE, type |-> "null", value |-> ""]

\* the Mermaid text of the nodes and connections found
MermaidOf(nodes, connections) ==
    "flowchart TD\n" \o NodeLines(nodes, 0) \o ConnectionLines(connections)
    \o (IF Len(connections) = 0 /\ Len(nodes) > 1 THEN ChainLines(Len(nodes), 0) ELSE "")

Converted(asciiText, nodes) ==
    IF Len(nodes) = 0 THEN NullValue
    ELSE Returned(MermaidOf(nodes, ConnectionsFrom(asciiText, nodes, 0)))

asciiToMermaid(asciiText) == Converted(asciiText, NodesOf(Split(asciiText, "\n"), <<>>))

\* /(\w+)\[["']?([^\]"']+)["']?\]/ with the id starting at k and ending at e:
\* where the text starts and ends, and the index after the match (-1: none)
NodeTextFrom(line, b) ==
    [start |-> b, stop |-> RunNotIn(line, b, {"]", "\"", "'"})]
NodeTextClosed(line, k, e, t, c) ==
    [id |-> Sub(line, k, e), text |-> Sub(line, t.start, t.stop),
     end |-> IF t.stop > t.start /\ CharAt(line, c) = "]" THEN c + 1 ELSE -1]
NodeTextOpened(line, k, e, t) ==
    NodeTextClosed(line, k, e, t, IF CharAt(line, t.stop) \in Quotes THEN t.stop + 1 ELSE t.stop)
NodeDeclarationFrom(line, k, e) ==
    IF e > k /\ CharAt(line, e) = "["
    THEN NodeTextOpened(line, k, e,
             NodeTextFrom(line, IF CharAt(line, e + 1) \in Quotes THEN e + 2 ELSE e + 1))
    ELSE [id |-> "", text |-> "", end |-> -1]
NodeDeclarationAt(line, k) == NodeDeclarationFrom(line, k, RunIn(line, k, WordChar))

\* line.match(nodePattern): the leftmost match, end = -1 when there is none
NodeDeclarationAmong(line, starts) ==
    IF starts = {} THEN [id |-> "", text |-> "", end |-> -1]
    ELSE NodeDeclarationAt(line, Min(starts))
NodeDeclaration(line) ==
    NodeDeclarationAmong(line,
        {k \in 0..(Len(line) - 1) : NodeDeclarationAt(line, k).end >= 0})

\* (-->|--\>|==>|-.->) at a: the indexes after the arrow, one for each
\* alternative that matches; the . of the last one is any character of the line
ArrowEnds(line, a) ==
    (IF HasAt(line, "-->", a) THEN {a + 3} ELSE {})
    \cup (IF HasAt(line, "==>", a) THEN {a + 3} ELSE {})
    \cup (IF CharAt(line, a) = "-" /\ a + 1 < Len(line) /\ HasAt(line, "->", a + 2)
          THEN {a + 4} ELSE {})

\* the matches of connPattern whose first id starts at k and ends at e, as the
\* indexes at which the second id starts
ConnectionTargets(line, ends) ==
    {RunIn(line, b, WhiteSpace) : b \in {c \in ends : CharAt(line, RunIn(line, c, WhiteSpace)) \in WordChar}}
ConnectionFrom(line, k, e) ==
    IF e > k THEN ConnectionTargets(line, ArrowEnds(line, RunIn(line, e, WhiteSpace))) ELSE {}

\* /(\w+)\s*(-->|--\>|==>|-.->)\s*(\w+)/ with the first id starting at k: the
\* alternatives are tried in order, and the three-character arrows end before
\* the four-character one
ConnectionWith(line, k, e, targets) ==
    IF targets = {} THEN <<>>
    ELSE <<[from |-> Sub(line, k, e),
            to |-> Sub(line, Min(targets), RunIn(line, Min(targets), WordChar))]>>
ConnectionAt(line, k) ==
    ConnectionWith(line, k, RunIn(line, k, WordChar),
                   ConnectionFrom(line, k, RunIn(line, k, WordChar)))

\* line.match(connPattern): the leftmost match, as a sequence of at most one
ConnectionAmong(line, starts) ==
    IF starts = {} THEN <<>> ELSE ConnectionAt(line, Min(starts))
ConnectionOf(line) ==
    ConnectionAmong(line, {k \in 0..(Len(line) - 1) : ConnectionAt(line, k) # <<>>})

\* nodeTexts.set(id, text): a Map keeps the place of a key it holds already
RECURSIVE MapSet(_, _, _)
MapSet(entries, id, text) ==
    IF Len(entries) = 0 THEN <<[id |-> id, text |-> text]>>
    ELSE IF entries[1].id = id THEN <<[id |-> id, text |-> text]>> \o Tail(entries)
    ELSE <<entries[1]>> \o MapSet(Tail(entries), id, text)

MapSetMatch(entries, match) ==
    IF match.end < 0 THEN entries ELSE MapSet(entries, match.id, match.text)

\* the loop over the lines of mermaidToAscii
RECURSIVE NodeTextsOf(_, _)
NodeTextsOf(lines, entries) ==
    IF Len(lines) = 0 THEN entries
    ELSE NodeTextsOf(Tail(lines), MapSetMatch(entries, NodeDeclaration(lines[1])))
RECURSIVE ConnectionsOf(_)
ConnectionsOf(lines) ==
    IF Len(lines) = 0 THEN <<>> ELSE ConnectionOf(lines[1]) \o ConnectionsOf(Tail(lines))

RECURSIVE Repeat(_, _)
Repeat(s, n) == IF n <= 0 THEN "" ELSE s \o Repeat(s, n - 1)

\* Math.max(...lengths) + 4
RECURSIVE MaxTextLength(_)
MaxTextLength(entries) ==
    IF Len(entries) = 0 THEN 0
    ELSE IF Len(entries[1].text) >= MaxTextLength(Tail(entries)) THEN Len(entries[1].text)
    ELSE MaxTextLength(Tail(entries))

\* text.padStart((boxWidth - 2 + text.length) / 2).padEnd(boxWidth - 2): the
\* target of padStart is cut to a whole number
PaddedText(text, boxWidth) ==
    Repeat(" ", ((boxWidth - 2 + Len(text)) \div 2) - Len(text)) \o text
    \o Repeat(" ", boxWidth - 2 - Len(text) - ((boxWidth - 2 + Len(text)) \div 2 - Len(text)))

BoxOf(text, boxWidth) ==
    "+" \o Repeat("-", boxWidth - 2) \o "+\n"
    \o "|" \o PaddedText(text, boxWidth) \o "|\n"
    \o "+" \o Repeat("-", boxWidth - 2) \o "+\n"

ArrowDown(boxWidth) ==
    Repeat(" ", boxWidth \div 2) \o "|\n" \o Repeat(" ", boxWidth \div 2) \o "v\n"

\* connections.find(c => c.from === nodeId)
HasConnectionFrom(connections, nodeId) ==
    \E j \in 1..Len(connections) : connections[j].from = nodeId

\* the loop over nodeIds, from index i
RECURSIVE BoxesFrom(_, _, _, _)
BoxesFrom(entries, connections, boxWidth, i) ==
    IF i > Len(entries) THEN ""
    ELSE BoxOf(entries[i].text, boxWidth)
         \o (IF HasConnectionFrom(connections, entries[i].id) /\ i < Len(entries)
             THEN ArrowDown(boxWidth) ELSE "")
         \o BoxesFrom(entries, connections, boxWidth, i + 1)

AsciiOf(entries, connections) ==
    IF Len(entries) = 0 THEN NullValue
    ELSE Returned(BoxesFrom(entries, connections, MaxTextLength(entries) + 4, 1))

mermaidToAscii(mermaidCode) ==
    AsciiOf(NodeTextsOf(Split(mermaidCode, "\n"), <<>>),
            ConnectionsOf(Split(mermaidCode, "\n")))

----------------------------------------------------------------------------
(* The line patterns of the block parser *)

\* the line at JavaScript index k
LineAt(lines, k) == lines[k + 1]

\* /^\[\^(\w+)\]:\s*(.+)$/ : the index after the id, or -1 when no match
FootnoteDefIdEnd(line) ==
    IF ~StartsWith(line, "[^") THEN -1
    ELSE LET e == RunIn(line, 2, WordChar) IN
         IF e > 2 /\ HasAt(line, "]:", e) /\ e + 2 < Len(line)
            /\ RunNotIn(line, e + 2, LineTerminator) = Len(line)
         THEN e ELSE -1

IsFootnoteDef(line) == FootnoteDefIdEnd(line) >= 0
FootnoteDefId(line) == Sub(line, 2, FootnoteDefIdEnd(line))
\* \s* gives back one character when nothing but white space follows the colon
FootnoteDefText(line) ==
    LET w == RunIn(line, FootnoteDefIdEnd(line) + 2, WhiteSpace)
    IN IF w < Len(line) THEN From(line, w) ELSE From(line, Len(line) - 1)

\* /^:\s+.+/
IsDefinitionLine(line) ==
    /\ StartsWith(line, ":")
    /\ CharAt(line, 1) \in WhiteSpace
    /\ Len(line) >= 3
    /\ \/ CharAt(line, 2) \notin LineTerminator
       \/ RunIn(line, 1, WhiteSpace) < Len(line)
          /\ CharAt(line, RunIn(line, 1, WhiteSpace)) \notin LineTerminator

\* /^:\s+/
HasDefinitionPrefix(line) == StartsWith(line, ":") /\ CharAt(line, 1) \in WhiteSpace
StripDefinitionPrefix(line) == From(line, RunIn(line, 1, WhiteSpace))

\* /^```/ and /^```$/
IsFenceOpen(line) == StartsWith(line, Fence)
\* a closing-fence test that lost its end anchor: /^```/ for /^```$/
IsFenceCloseUnanchored(line) == StartsWith(line, Fence)
IsFenceClose(line) == line = Fence
\* /^```(\w+)?/
FenceLanguage(line) == Sub(line, 3, RunIn(line, 3, WordChar))

SeparatorHead == {"-", ":"} \cup WhiteSpace
SeparatorTail == SeparatorHead \cup {"|"}

\* /^\|?[-:\s]+\|[-:\s|]+\|?$/
IsSeparatorLine(line) ==
    LET b == IF StartsWith(line, "|") THEN 1 ELSE 0
        a == RunIn(line, b, SeparatorHead)
    IN /\ a > b
       /\ CharAt(line, a) = "|"
       /\ a + 1 < Len(line)
       /\ RunIn(line, a + 1, SeparatorTail) = Len(line)

isTableStart(lines, index) ==
    /\ index + 1 < Len(lines)
    /\ Includes(LineAt(lines, index), "|")
    /\ LineAt(lines, index + 1) # ""
    /\ IsSeparatorLine(LineAt(lines, index + 1))

isDefinitionList(lines, index) ==
    /\ index + 1 < Len(lines)
    /\ Trim(LineAt(lines, index)) # ""
    /\ ~StartsWith(Trim(LineAt(lines, index)), "#")
    /\ LineAt(lines, index + 1) # ""
    /\ IsDefinitionLine(LineAt(lines, index + 1))

\* /^(#{1,6})\s+(.+)$/ : the level, or 0 when no match
HeadingLevel(line) ==
    LET h == RunIn(line, 0, {"#"})
        w == RunIn(line, h, WhiteSpace)
    IN IF h >= 1 /\ h <= 6 /\ w > h /\ (w < Len(line) \/ w - h >= 2)
          /\ RunNotIn(line, h, LineTerminator) = Len(line)
       THEN h ELSE 0

\* \s+ gives back one character when nothing but white space follows the #s
HeadingText(line) ==
    LET w == RunIn(line, RunIn(line, 0, {"#"}), WhiteSpace)
    IN IF w < Len(line) THEN From(line, w) ELSE From(line, Len(line) - 1)

\* /^(-{3,}|\*{3,}|_{3,})$/
IsHorizontalRule(line) ==
    /\ Len(line) >= 3
    /\ \E c \in {"-", "*", "_"} : RunIn(line, 0, {c}) = Len(line)

\* /^>\s*/ and the replacement of /^>\s?/ by ''
IsQuoteLine(line) == StartsWith(line, ">")
StripQuoteMarker(line) == From(line, IF CharAt(line, 1) \in WhiteSpace THEN 2 ELSE 1)

Bullet == {"-", "*", "+"}

\* /^(\s*)[-*+]\s+(.*)$/ : the index where the item's content starts, or -1
UlContentStart(line) ==
    LET w == RunIn(line, 0, WhiteSpace)
        c == RunIn(line, w + 1, WhiteSpace)
    IN IF CharAt(line, w) \in Bullet /\ c > w + 1
          /\ RunNotIn(line, c, LineTerminator) = Len(line)
       THEN c ELSE -1

\* /^(\s*)\d+\.\s+(.*)$/ : the index where the item's content starts, or -1
OlContentStart(line) ==
    LET w == RunIn(line, 0, WhiteSpace)
        d == RunIn(line, w, Digit)
        c == RunIn(line, d + 1, WhiteSpace)
    IN IF d > w /\ CharAt(line, d) = "." /\ c > d + 1
          /\ RunNotIn(line, c, LineTerminator) = Len(line)
       THEN c ELSE -1

\* /^(\s*)[-*+]\s+\[[ xX]\]\s+(.*)$/ : the index where the content starts, or -1
TaskContentStart(line) ==
    LET w == RunIn(line, 0, WhiteSpace)
        b == RunIn(line, w + 1, WhiteSpace)
        c == RunIn(line, b + 3, WhiteSpace)
    IN IF /\ CharAt(line, w) \in Bullet /\ b > w + 1
          /\ CharAt(line, b) = "[" /\ CharAt(line, b + 1) \in {" ", "x", "X"}
          /\ CharAt(line, b + 2) = "]" /\ c > b + 3
          /\ RunNotIn(line, c, LineTerminator) = Len(line)
       THEN c ELSE -1

\* /^(\s*)[-*+]\s+/ , /^(\s*)\d+\.\s+/ , /^(\s*)[-*+]\s+\[[ xX]\]\s+/
IsUlLine(line) ==
    LET w == RunIn(line, 0, WhiteSpace)
    IN CharAt(line, w) \in Bullet /\ CharAt(line, w + 1) \in WhiteSpace
IsOlLine(line) ==
    LET w == RunIn(line, 0, WhiteSpace)
        d == RunIn(line, w, Digit)
    IN d > w /\ CharAt(line, d) = "." /\ CharAt(line, d + 1) \in WhiteSpace
IsTaskLine(line) ==
    LET w == RunIn(line, 0, WhiteSpace)
        b == RunIn(line, w + 1, WhiteSpace)
    IN /\ CharAt(line, w) \in Bullet /\ b > w + 1
       /\ CharAt(line, b) = "[" /\ CharAt(line, b + 1) \in {" ", "x", "X"}
       /\ CharAt(line, b + 2) = "]" /\ CharAt(line, b + 3) \in WhiteSpace

\* (\s*) of the list patterns: the indentation of a line
Indent(line) == RunIn(line, 0, WhiteSpace)

IsBlank(line) == Trim(line) = ""

\* the lines at which parseParagraph stops
StopsParagraph(line) ==
    \/ LET h == RunIn(line, 0, {"#"})
       IN h >= 1 /\ h <= 6 /\ CharAt(line, h) \in WhiteSpace      \* /^#{1,6}\s/
    \/ CharAt(line, 0) \in Bullet /\ CharAt(line, 1) \in WhiteSpace  \* /^[-*+]\s/
    \/ LET d == RunIn(line, 0, Digit)
       IN d > 0 /\ CharAt(line, d) = "." /\ CharAt(line, d + 1) \in WhiteSpace
    \/ StartsWith(line, ">") /\ CharAt(line, 1) \in WhiteSpace     \* /^>\s/
    \/ IsFenceOpen(line)
    \/ IsHorizontalRule(line)
    \/ IsBlank(line)

----------------------------------------------------------------------------
(* The footnote table: a JavaScript object, kept as its entries in insertion *)
(* order.                                                                    *)

FnHas(fn, id) == \E k \in 1..Len(fn) : fn[k].id = id

\* this.footnotes[id] = text
FnPut(fn, id, text) ==
    IF FnHas(fn, id)
    THEN [k \in 1..Len(fn) |-> IF fn[k].id = id THEN [id |-> id, text |-> text] ELSE fn[k]]
    ELSE Append(fn, [id |-> id, text |-> text])

\* the loop that stores every footnote-definition line of lines into fn
RECURSIVE CollectFootnotes(_, _)
CollectFootnotes(lines, fn) ==
    IF Len(lines) = 0 THEN fn
    ELSE CollectFootnotes(Tail(lines),
             IF IsFootnoteDef(lines[1])
             THEN FnPut(fn, FootnoteDefId(lines[1]), FootnoteDefText(lines[1]))
             ELSE fn)

\* the lines extractFootnotes keeps
RECURSIVE NonFootnoteLines(_)
NonFootnoteLines(lines) ==
    IF Len(lines) = 0 THEN <<>>
    ELSE (IF IsFootnoteDef(lines[1]) THEN <<>> ELSE <<lines[1]>>)
             \o NonFootnoteLines(Tail(lines))

\* newLines.join('\n'), split again by parseBlocks: no line is one line, ''
Resplit(lines) == IF Len(lines) = 0 THEN <<"">> ELSE lines

\* An integer-like key ("0", "7", "12") comes first in Object.entries, in
\* numeric order; the other keys follow in insertion order.
IsIndexKey(id) ==
    /\ id # ""
    /\ RunIn(id, 0, Digit) = Len(id)
    /\ (Len(id) = 1 \/ CharAt(id, 0) # "0")

RECURSIVE SelectSeqBy(_, _)
SelectSeqBy(fn, indexKeys) ==
    IF Len(fn) = 0 THEN <<>>
    ELSE (IF IsIndexKey(fn[1].id) = indexKeys THEN <<fn[1]>> ELSE <<>>)
             \o SelectSeqBy(Tail(fn), indexKeys)

RECURSIVE SortByKey(_)
SortByKey(fn) ==
    IF Len(fn) = 0 THEN <<>>
    ELSE LET m == CHOOSE k \in 1..Len(fn) :
                      \A j \in 1..Len(fn) : KeyValue(fn[k].id) <= KeyValue(fn[j].id)
         IN <<fn[m]>> \o SortByKey(SubSeq(fn, 1, m - 1) \o SubSeq(fn, m + 1, Len(fn)))

\* Object.entries(this.footnotes)
FnEntries(fn) == SortByKey(SelectSeqBy(fn, TRUE)) \o SelectSeqBy(fn, FALSE)

BackArrow == "↩"

RECURSIVE FootnoteItems(_, _)
FootnoteItems(opt, entries) ==
    IF Len(entries) = 0 THEN ""
    ELSE "<li id=\"fn-" \o entries[1].id \o "\" style=\"margin-bottom:8px;\">"
         \o parseInline(opt, entries[1].text)
         \o " <a href=\"#fnref-" \o entries[1].id
         \o "\" style=\"color:#1a73e8;text-decoration:none;\">" \o BackArrow \o "</a>"
         \o "</li>" \o FootnoteItems(opt, Tail(entries))

\* the renderFootnotes the class ends up with (its second definition)
renderFootnotes(opt, fn) ==
    IF Len(fn) = 0 THEN ""
    ELSE "<section class=\"footnotes\""
         \o StyleAttr(opt, "margin-top:32px;padding-top:16px;border-top:1px solid #e0e0e0;font-size:0.9em;")
         \o ">"
         \o "<h4 style=\"margin:0 0 12px 0;font-size:14px;font-weight:bold;\">Footnotes</h4>"
         \o "<ol style=\"margin:0;padding-left:24px;\">"
         \o FootnoteItems(opt, FnEntries(fn))
         \o "</ol></section>"

----------------------------------------------------------------------------
(* The block handlers.  Each gives [html, endIndex] as in the source.       *)

\* the index of the closing fence after index k, or the number of lines
RECURSIVE FenceEnd(_, _)
FenceEnd(lines, k) ==
    IF k < Len(lines) /\ ~IsFenceClose(LineAt(lines, k)) THEN FenceEnd(lines, k + 1) ELSE k

\* lines[from..to) as a sequence
LinesBetween(lines, from, to) == IF from >= to THEN <<>> ELSE SubSeq(lines, from + 1, to)

\* options.highlightCode is held at the constructor's default, false
parseCodeBlock(opt, lines, startIndex) ==
    LET language == FenceLanguage(LineAt(lines, startIndex))
        endIndex == FenceEnd(lines, startIndex + 1)
        code == escapeHtml(Join(LinesBetween(lines, startIndex + 1, endIndex), "\n"))
        langAttr == IF language # "" THEN " data-language=\"" \o language \o "\"" ELSE ""
    IN [html |-> wrapTag(opt, "pre", "<code" \o langAttr \o ">" \o code \o "</code>", FALSE),
        endIndex |-> endIndex]

\* line.replace(/^\||\|$/g, '')
StripEdgePipes(line) ==
    LET a == IF StartsWith(line, "|") THEN From(line, 1) ELSE line
    IN IF EndsWith(a, "|") THEN Sub(a, 0, Len(a) - 1) ELSE a

parseTableRow(line) ==
    LET cells == Split(StripEdgePipes(line), "|")
    IN [k \in 1..Len(cells) |-> Trim(cells[k])]

AlignmentOf(cell) ==
    IF StartsWith(cell, ":") /\ EndsWith(cell, ":") THEN "center"
    ELSE IF EndsWith(cell, ":") THEN "right"
    ELSE "left"

parseTableAlignments(line) ==
    LET cells == Split(StripEdgePipes(line), "|")
    IN [k \in 1..Len(cells) |-> AlignmentOf(Trim(cells[k]))]

\* a column lookup that wraps around instead of defaulting to left
AlignAtWrapped(alignments, i) == alignments[(i % Len(alignments)) + 1]
\* alignments[i] || 'left', i a JavaScript index
AlignAt(alignments, i) == IF i < Len(alignments) THEN alignments[i + 1] ELSE "left"

\* the index after the last consecutive line, from k on, that holds a pipe
RECURSIVE RowsEnd(_, _)
RowsEnd(lines, k) ==
    IF k < Len(lines) /\ Includes(LineAt(lines, k), "|") THEN RowsEnd(lines, k + 1) ELSE k

\* the cells of one row, each a th or a td
RECURSIVE CellsHtml(_, _, _, _, _)
CellsHtml(opt, tag, cells, alignments, i) ==
    IF i >= Len(cells) THEN ""
    ELSE "<" \o tag \o " style=\""
         \o (IF opt.includeStyles THEN Styles(tag) ELSE "")
         \o "text-align:" \o AlignAt(alignments, i) \o ";\">"
         \o parseInline(opt, cells[i + 1]) \o "</" \o tag \o ">"
         \o CellsHtml(opt, tag, cells, alignments, i + 1)

RECURSIVE RowsHtml(_, _, _, _, _)
RowsHtml(opt, lines, alignments, k, end) ==
    IF k >= end THEN ""
    ELSE "<tr>" \o CellsHtml(opt, "td", parseTableRow(LineAt(lines, k)), alignments, 0)
         \o "</tr>" \o RowsHtml(opt, lines, alignments, k + 1, end)

parseTable(opt, lines, startIndex) ==
    LET headers == parseTableRow(LineAt(lines, startIndex))
        alignments == parseTableAlignments(LineAt(lines, startIndex + 1))
        endIndex == RowsEnd(lines, startIndex + 2)
    IN [html |-> (IF opt.includeStyles
                  THEN "<table style=\"" \o Styles("table") \o "\">" ELSE "<table>")
                 \o "<thead><tr>" \o CellsHtml(opt, "th", headers, alignments, 0)
                 \o "</tr></thead>"
                 \o "<tbody>" \o RowsHtml(opt, lines, alignments, startIndex + 2, endIndex)
                 \o "</tbody></table>",
        endIndex |-> endIndex - 1]

\* the index after the last consecutive quote line from k on
RECURSIVE QuoteEnd(_, _)
QuoteEnd(lines, k) ==
    IF k < Len(lines) /\ IsQuoteLine(LineAt(lines, k)) THEN QuoteEnd(lines, k + 1) ELSE k

QuoteLines(lines, from, to) ==
    [k \in 1..(to - from) |-> StripQuoteMarker(LineAt(lines, from + k - 1))]

CheckboxChecked == "<input type=\"checkbox\" checked disabled style=\"margin-right:8px;\">"
CheckboxUnchecked == "<input type=\"checkbox\" disabled style=\"margin-right:8px;\">"

ListItemHtml(opt, content) ==
    "<li" \o (IF opt.includeStyles THEN " style=\"" \o Styles("li") \o "\"" ELSE "")
          \o ">" \o content \o "</li>"

\* the while loop of parseList: [items, endIndex], items the <li> elements
RECURSIVE ListLoop(_, _, _, _, _, _)
ListLoop(opt, lines, type, baseIndent, endIndex, items) ==
    IF endIndex >= Len(lines) THEN [items |-> items, endIndex |-> endIndex]
    ELSE LET line == LineAt(lines, endIndex)
             start == IF type = "ul" THEN UlContentStart(line) ELSE OlContentStart(line)
         IN IF start < 0
            THEN IF TaskContentStart(line) >= 0 /\ type = "ul" /\ Indent(line) >= baseIndent
                 THEN ListLoop(opt, lines, type, baseIndent, endIndex + 1,
                          items \o ListItemHtml(opt,
                              (IF Includes(line, "[x]") \/ Includes(line, "[X]")
                               THEN CheckboxChecked ELSE CheckboxUnchecked)
                              \o parseInline(opt, From(line, TaskContentStart(line)))))
                 ELSE IF IsBlank(line)
                         \/ (CharAt(line, 0) \in WhiteSpace /\ CharAt(line, 1) \in WhiteSpace)
                 THEN ListLoop(opt, lines, type, baseIndent, endIndex + 1, items)
                 ELSE [items |-> items, endIndex |-> endIndex]
            ELSE IF Indent(line) < baseIndent
                 THEN [items |-> items, endIndex |-> endIndex]
                 ELSE ListLoop(opt, lines, type, baseIndent, endIndex + 1,
                          items \o ListItemHtml(opt, parseInline(opt, From(line, start))))

buildListHtml(opt, items, type) ==
    IF items = "" THEN ""
    ELSE (IF opt.includeStyles
          THEN "<" \o type \o " style=\"" \o Styles(type) \o "\">"
          ELSE "<" \o type \o ">")
         \o items \o "</" \o type \o ">"

parseList(opt, lines, startIndex, type) ==
    LET r == ListLoop(opt, lines, type, Indent(LineAt(lines, startIndex)), startIndex, "")
    IN [html |-> buildListHtml(opt, r.items, type), endIndex |-> r.endIndex - 1]

\* the index after the last line parseParagraph takes from k on
RECURSIVE ParagraphEnd(_, _)
ParagraphEnd(lines, k) ==
    IF k < Len(lines) /\ ~StopsParagraph(LineAt(lines, k)) THEN ParagraphEnd(lines, k + 1) ELSE k

parseParagraph(opt, lines, startIndex) ==
    LET endIndex == ParagraphEnd(lines, startIndex)
        paraLines == LinesBetween(lines, startIndex, endIndex)
    IN [html |-> wrapTag(opt, "p",
                     parseInline(opt, Join(paraLines, IF opt.breaks THEN "<br>" ELSE " ")),
                     FALSE),
        endIndex |-> endIndex - 1]

\* the index after the definitions of one term, from k on
RECURSIVE DefinitionsEnd(_, _)
DefinitionsEnd(lines, k) ==
    IF k < Len(lines) /\ HasDefinitionPrefix(LineAt(lines, k))
    THEN DefinitionsEnd(lines, k + 1) ELSE k

RECURSIVE BlankEnd(_, _)
BlankEnd(lines, k) ==
    IF k < Len(lines) /\ IsBlank(LineAt(lines, k)) THEN BlankEnd(lines, k + 1) ELSE k

RECURSIVE DefinitionsHtml(_, _, _, _)
DefinitionsHtml(opt, lines, k, end) ==
    IF k >= end THEN ""
    ELSE "<dd" \o StyleAttr(opt, "margin:0 0 8px 24px;color:#555;") \o ">"
         \o parseInline(opt, StripDefinitionPrefix(LineAt(lines, k))) \o "</dd>"
         \o DefinitionsHtml(opt, lines, k + 1, end)

\* the while loop of parseDefinitionList: [items, i], items the dt and dd
\* elements collected so far
RECURSIVE DefinitionLoop(_, _, _, _)
DefinitionLoop(opt, lines, i, items) ==
    IF i >= Len(lines) THEN [items |-> items, i |-> i]
    ELSE LET termLine == Trim(LineAt(lines, i)) IN
         IF termLine = "" \/ StartsWith(termLine, "#") THEN [items |-> items, i |-> i]
         ELSE IF i + 1 >= Len(lines) \/ ~HasDefinitionPrefix(LineAt(lines, i + 1))
         THEN [items |-> items, i |-> i]
         ELSE LET d == DefinitionsEnd(lines, i + 1)
                  n == BlankEnd(lines, d)
                  item == "<dt" \o StyleAttr(opt, "font-weight:bold;margin:8px 0 4px 0;") \o ">"
                          \o parseInline(opt, termLine) \o "</dt>"
                          \o DefinitionsHtml(opt, lines, i + 1, d)
              IN IF n >= Len(lines) \/ n + 1 >= Len(lines)
                    \/ ~HasDefinitionPrefix(LineAt(lines, n + 1))
                 THEN [items |-> items \o item, i |-> n]
                 ELSE DefinitionLoop(opt, lines, n, items \o item)

parseDefinitionList(opt, lines, startIndex) ==
    LET r == DefinitionLoop(opt, lines, startIndex, "")
    IN [html |-> "<dl" \o StyleAttr(opt, "margin:0 0 16px 0;") \o ">" \o r.items \o "</dl>",
        endIndex |-> r.i - 1]

----------------------------------------------------------------------------
(* Inputs *)

\* the longest document built from CoreLines
MaxLines == 3
\* the blocks one parseBlocks activation may collect before the model stops
\* following it (an activation whose cursor is stuck collects without end)
MaxBlocks == 6

\* the option records a parser is constructed with: the defaults, the defaults
\* with breaks on, and two plain configurations
ParserOptions ==
    { [breaks |-> FALSE, linkify |-> TRUE, typographer |-> TRUE,
       includeStyles |-> TRUE, highlightCode |-> FALSE],
      [breaks |-> TRUE, linkify |-> TRUE, typographer |-> TRUE,
       includeStyles |-> TRUE, highlightCode |-> FALSE],
      [breaks |-> FALSE, linkify |-> FALSE, typographer |-> FALSE,
       includeStyles |-> FALSE, highlightCode |-> FALSE],
      [breaks |-> TRUE, linkify |-> TRUE, typographer |-> FALSE,
       includeStyles |-> FALSE, highlightCode |-> FALSE] }

\* the lines every document up to MaxLines lines is built from
CoreLines ==
    { "", ": d", "# T", "# ", "a[^1]", "[^1]: n", "- [x] a", "- b" }

RECURSIVE SeqsUpTo(_, _)
SeqsUpTo(S, n) ==
    IF n = 0 THEN {<<>>}
    ELSE LET shorter == SeqsUpTo(S, n - 1)
         IN shorter \cup {Append(q, x) : q \in {r \in shorter : Len(r) = n - 1}, x \in S}

\* documents that exercise the remaining constructs
ScenarioDocs ==
    { <<"|A|B|", "|-|-:|", "|1|2|">>,
      <<"|A|B|", "|:-:|-|", "|1|2|3|", "4|5", "end">>,
      <<"A|B", ":-|-:|", "">>,
      <<"a|b", ": -|-">>,
      <<Fence, "# T", Fence, "x">>,
      <<Fence \o "js", "a <b> *c*", "- [x] a">>,
      <<Fence, ": d">>,
      <<"x", Fence>>,
      <<"# A.b">>, <<"## Hello, World!">>, <<"### a_b">>, <<"#### A  -  B">>,
      <<"##### *T*">>, <<"###### <T> & \"q\"">>, <<"####### T">>, <<"#  ">>,
      <<"# A|B", "|-|-|">>, <<"# T", "## T">>, <<"## *a* _b_">>,
      <<Fence, Fence \o "js", "x", Fence, "y">>,
      <<"|A|B|", "|:|::|", "|1|2|">>,
      <<"---">>, <<"***", "___">>, <<"--">>,
      <<"> q", "> # T", "r">>,
      <<"> [^1]: n", "a[^1]">>,
      <<"> > q">>,
      <<">", "> : d">>,
      <<"> # ">>,
      <<"1. a", "2. b", "", "3. c">>,
      <<"1. a", "- [ ] b">>,
      <<"- a", "  - [ ] b", "- [X] c">>,
      <<"* [ ] a", "+ [x] *b*">>,
      <<"  - a", "- b">>,
      <<"p *q*", "r", "", "s">>,
      <<"a " \o BackTick \o "b*c*d" \o BackTick \o " e">>,
      <<BackTick \o "_x_ ~~y~~ ^z^ ==m==" \o BackTick>>,
      <<BackTick \o "[t](u) http://h.x" \o BackTick>>,
      <<"[t](http://h.x) and http://k.y.">>,
      <<"[see http://a.b](http://c.d)">>,
      <<"<http://a.b>">>,
      <<"a " \o BackTick \o "b--c" \o BackTick>>,
      <<"![i](/p.png) ~s~ ***b*** --- ...">>,
      <<"[^b]: x", "[^10]: y", "[^2]: z", "[^b]: w", "t[^2]">>,
      <<"T", ": d", ": e", "", "U", ": f", "g">>,
      <<"[^1]: n">> }

Docs == (SeqsUpTo(CoreLines, MaxLines) \ {<<>>}) \cup ScenarioDocs

\* markdown.split('\n') of the empty string
EmptyDocument == <<"">>

\* the documents a parser that has parsed before is given next
LaterDocs == { EmptyDocument, <<"b">>, <<"## U", "c[^2]", "> [^2]: m">> }

----------------------------------------------------------------------------
(* The parser as a state machine *)

Frame(lines, ret) == [lines |-> lines, i |-> 0, blocks |-> <<>>, ret |-> ret]

Top == stack[Len(stack)]
AtLine == pc = "blocks" /\ Top.i < Len(Top.lines) /\ Len(Top.blocks) < MaxBlocks
Line == LineAt(Top.lines, Top.i)

\* the if-chain of the parseBlocks loop: the branch that takes the line at
\* index i.  "definition2" (the second definition-list test) and "task" can
\* be taken by no line: an earlier test of the chain holds whenever theirs does.
Branch(lines, i) ==
    LET line == LineAt(lines, i) IN
    IF IsFootnoteDef(line) THEN "footnote"
    ELSE IF i + 1 < Len(lines) /\ IsDefinitionLine(LineAt(lines, i + 1)) THEN "definition"
    ELSE IF IsFenceOpen(line) THEN "code"
    ELSE IF isTableStart(lines, i) THEN "table"
    ELSE IF isDefinitionList(lines, i) THEN "definition2"
    ELSE IF HeadingLevel(line) > 0 THEN "heading"
    ELSE IF IsHorizontalRule(line) THEN "hr"
    ELSE IF IsQuoteLine(line) THEN "blockquote"
    ELSE IF IsUlLine(line) THEN "ul"
    ELSE IF IsOlLine(line) THEN "ol"
    ELSE IF IsTaskLine(line) THEN "task"
    ELSE IF IsBlank(line) THEN "empty"
    ELSE "paragraph"

\* blocks.push(html); i = endIndex + 1
Advance(html, endIndex) ==
    stack' = [stack EXCEPT ![Len(stack)] =
                 [@ EXCEPT !.blocks = Append(@, html), !.i = endIndex + 1]]

\* i++ with nothing pushed
Skip == stack' = [stack EXCEPT ![Len(stack)] = [@ EXCEPT !.i = @ + 1]]

\* no call of the libraries around the parser yet
\* a promise that is not settled
Pending == [state |-> "pending", value |-> ""]
Fulfilled(value) == [state |-> "fulfilled", value |-> value]
Rejected(message) == [state |-> "rejected", value |-> message]

\* DiagramHandler after its constructor, no call running, and a page without
\* the mermaid script
RendererInit ==
    [mermaid |-> FALSE, mermaidInitialized |-> FALSE, caller |-> "none", pc |-> "idle",
     code |-> "", svg |-> Pending, html |-> "", result |-> "", matches |-> <<>>,
     done |-> Pending]

\* a string or null
Str(s) == [null |-> FALSE, value |-> s]
Null == [null |-> TRUE, value |-> ""]

\* lastCopied = null
NoEntry == [html |-> Null, text |-> Null, type |-> "null", timestamp |-> 0, id |-> ""]

\* no copy operation is running
NoCopy ==
    [name |-> "none", running |-> "none", pc |-> "idle", html |-> Null, text |-> Null,
     attempts |-> 0, result |-> Pending]

\* ClipboardManager after its constructor, and a storage area without the
\* key copyHistory
ClipboardInit ==
    [lastCopied |-> NoEntry, copyHistory |-> <<>>, clock |-> 0,
     stored |-> [present |-> FALSE, copyHistory |-> <<>>],
     loading |-> [pending |-> FALSE, present |-> FALSE, copyHistory |-> <<>>],
     op |-> NoCopy]

\* this.defaults, of which the model keeps two keys
Defaults == [theme |-> "system", autoClear |-> FALSE]

\* no save call is running
NoSave ==
    [pc |-> "idle", before |-> Defaults, newSettings |-> <<>>, returned |-> Pending]

\* StorageManager after its constructor, and a storage area without settings
StorageInit ==
    [settings |-> Defaults, listeners |-> <<>>, notified |-> <<>>, written |-> <<>>,
     save |-> NoSave]

\* MarkdownFormatterApp after its constructor, before init() has loaded the
\* settings: settings is {}, debounceTimer is null (0 here, timer handles
\* start at 1), and no timer is set.  elapsed, scheduled, debounce, delay,
\* timerRuns, directRuns and earliest record what happened since the last
\* call of handleInput: the time that passed, whether it called
\* debouncePreview, settings.previewDebounce at the call and the delay of
\* the timer it set, the runs of updatePreview from the timer and from
\* other handlers, and the time of the first run (-1: none).  writes are the
\* calls of navigator.clipboard.write / writeText that have not settled,
\* systemClipboard is the name of the copy whose content the clipboard of
\* the system holds, and key and started are the last keydown event and the
\* copy functions its handler called
NoKey == [key |-> "", ctrlKey |-> FALSE, metaKey |-> FALSE, shiftKey |-> FALSE]
AppInit ==
    [loaded |-> FALSE, livePreview |-> FALSE, previewDebounce |-> 0, autoClear |-> FALSE,
     value |-> "", previewed |-> "", currentHtml |-> "", currentPlainText |-> "",
     historyModal |-> FALSE, status |-> "", writes |-> <<>>, systemClipboard |-> "",
     keys |-> 0, key |-> NoKey, started |-> <<>>,
     debounceTimer |-> 0, handles |-> 0,
     timers |-> {}, pastes |-> 0, inputs |-> 0, elapsed |-> 0, scheduled |-> FALSE,
     debounce |-> 0, delay |-> 0, timerRuns |-> 0, directRuns |-> 0, earliest |-> -1]

\* the constructors of the objects next to the parser
ComponentsInit ==
    /\ exporter = [filename |-> "exported-document", exported |-> ""]
    /\ renderer = RendererInit
    /\ clipboard = ClipboardInit
    /\ storage = StorageInit
    /\ app = AppInit

NoCall == [op |-> "none", target |-> "", argument |-> "", returned |-> Returned(""), depth |-> 0]

Init ==
    /\ options \in ParserOptions
    /\ markdown = EmptyDocument
    /\ headings = <<>>
    /\ footnotes = <<>>
    /\ stack = <<>>
    /\ pc = "idle"
    /\ result = ""
    /\ call = NoCall
    /\ ComponentsInit

\* parse(markdown), up to the call of parseBlocks
Parse ==
    /\ pc \in {"idle", "done"}
    /\ \E md \in (IF pc = "idle" THEN Docs \cup {EmptyDocument} ELSE LaterDocs) :
        /\ markdown' = md
        /\ IF md = EmptyDocument
           THEN /\ result' = ""
                /\ pc' = "done"
                /\ UNCHANGED <<headings, footnotes, stack>>
           ELSE /\ headings' = <<>>
                /\ footnotes' = CollectFootnotes(md, <<>>)
                /\ stack' = <<Frame(Resplit(NonFootnoteLines(md)), 0)>>
                /\ pc' = "extracted"
                /\ result' = ""
    /\ UNCHANGED <<options, call, others>>

\* parseBlocks(text), called by parse: the footnote table is started again
\* from the lines parseBlocks is given
ParseBlocksEnter ==
    /\ pc = "extracted"
    /\ footnotes' = CollectFootnotes(Top.lines, <<>>)
    /\ pc' = "blocks"
    /\ UNCHANGED <<options, markdown, headings, stack, result, call, others>>

SkipFootnoteDef ==
    /\ AtLine /\ Branch(Top.lines, Top.i) = "footnote"
    /\ Skip
    /\ UNCHANGED <<options, markdown, headings, footnotes, pc, result, call, others>>

DefinitionList ==
    /\ AtLine /\ Branch(Top.lines, Top.i) \in {"definition", "definition2"}
    /\ LET r == parseDefinitionList(options, Top.lines, Top.i)
       IN Advance(r.html, r.endIndex)
    /\ UNCHANGED <<options, markdown, headings, footnotes, pc, result, call, others>>

CodeBlock ==
    /\ AtLine /\ Branch(Top.lines, Top.i) = "code"
    /\ LET r == parseCodeBlock(options, Top.lines, Top.i)
       IN Advance(r.html, r.endIndex)
    /\ UNCHANGED <<options, markdown, headings, footnotes, pc, result, call, others>>

Table ==
    /\ AtLine /\ Branch(Top.lines, Top.i) = "table"
    /\ LET r == parseTable(options, Top.lines, Top.i)
       IN Advance(r.html, r.endIndex)
    /\ UNCHANGED <<options, markdown, headings, footnotes, pc, result, call, others>>

HeadingHtml(opt, level, rawText) ==
    LET tag == "h" \o ToString(level)
    IN "<" \o tag \o " id=\"" \o slugify(rawText) \o "\""
       \o (IF opt.includeStyles THEN " style=\"" \o Styles(tag) \o "\"" ELSE "")
       \o ">" \o parseInline(opt, rawText) \o "</" \o tag \o ">"

HeadingEntry(level, rawText) == [level |-> level, text |-> rawText, id |-> slugify(rawText)]

Heading ==
    /\ AtLine /\ Branch(Top.lines, Top.i) = "heading"
    /\ headings' = Append(headings, HeadingEntry(HeadingLevel(Line), HeadingText(Line)))
    /\ Advance(HeadingHtml(options, HeadingLevel(Line), HeadingText(Line)), Top.i)
    /\ UNCHANGED <<options, markdown, footnotes, pc, result, call, others>>

HorizontalRule ==
    /\ AtLine /\ Branch(Top.lines, Top.i) = "hr"
    /\ Advance(wrapTag(options, "hr", "", TRUE), Top.i)
    /\ UNCHANGED <<options, markdown, headings, footnotes, pc, result, call, others>>

\* parseBlockquote up to its call of parseBlocks, and that call's first loop
Blockquote ==
    /\ AtLine /\ Branch(Top.lines, Top.i) = "blockquote"
    /\ LET end == QuoteEnd(Top.lines, Top.i)
           inner == QuoteLines(Top.lines, Top.i, end)
       IN /\ stack' = Append(stack, Frame(inner, end))
          /\ footnotes' = CollectFootnotes(inner, <<>>)
    /\ UNCHANGED <<options, markdown, headings, pc, result, call, others>>

\* the nested parseBlocks returns: the rest of parseBlockquote and the
\* caller's blocks.push and cursor update
BlockquoteReturn ==
    /\ pc = "blocks" /\ Len(stack) > 1 /\ Top.i >= Len(Top.lines)
    /\ LET html == wrapTag(options, "blockquote", Join(Top.blocks, "\n"), FALSE)
           outer == stack[Len(stack) - 1]
       IN stack' = Append(SubSeq(stack, 1, Len(stack) - 2),
                          [outer EXCEPT !.blocks = Append(@, html), !.i = Top.ret])
    /\ UNCHANGED <<options, markdown, headings, footnotes, pc, result, call, others>>

UnorderedList ==
    /\ AtLine /\ Branch(Top.lines, Top.i) \in {"ul", "task"}
    /\ LET r == parseList(options, Top.lines, Top.i, "ul")
       IN Advance(r.html, r.endIndex)
    /\ UNCHANGED <<options, markdown, headings, footnotes, pc, result, call, others>>

OrderedList ==
    /\ AtLine /\ Branch(Top.lines, Top.i) = "ol"
    /\ LET r == parseList(options, Top.lines, Top.i, "ol")
       IN Advance(r.html, r.endIndex)
    /\ UNCHANGED <<options, markdown, headings, footnotes, pc, result, call, others>>

EmptyLine ==
    /\ AtLine /\ Branch(Top.lines, Top.i) = "empty"
    /\ Skip
    /\ UNCHANGED <<options, markdown, headings, footnotes, pc, result, call, others>>

Paragraph ==
    /\ AtLine /\ Branch(Top.lines, Top.i) = "paragraph"
    /\ LET r == parseParagraph(options, Top.lines, Top.i)
       IN Advance(r.html, r.endIndex)
    /\ UNCHANGED <<options, markdown, headings, footnotes, pc, result, call, others>>

\* the outermost parseBlocks returns: the rest of parse
ParseReturn ==
    /\ pc = "blocks" /\ Len(stack) = 1 /\ Top.i >= Len(Top.lines)
    /\ result' = Trim(Join(Top.blocks, "\n")
                      \o (IF Len(footnotes) > 0 THEN renderFootnotes(options, footnotes) ELSE ""))
    /\ pc' = "done"
    /\ stack' = <<>>
    /\ UNCHANGED <<options, markdown, headings, footnotes, call, others>>

Next ==
    \/ Parse
    \/ ParseBlocksEnter
    \/ SkipFootnoteDef
    \/ DefinitionList
    \/ CodeBlock
    \/ Table
    \/ Heading
    \/ HorizontalRule
    \/ Blockquote
    \/ BlockquoteReturn
    \/ UnorderedList
    \/ OrderedList
    \/ EmptyLine
    \/ Paragraph
    \/ ParseReturn

Spec == Init /\ [][Next]_vars

----------------------------------------------------------------------------
(* The popup: one parser with the default options, and the calls of        *)
(* HTMLOptimizer, toPlainText and DiagramHandler made on what it returns    *)

\* new MarkdownParser(): the defaults of the constructor
DefaultOptions ==
    [breaks |-> FALSE, linkify |-> TRUE, typographer |-> TRUE,
     includeStyles |-> TRUE, highlightCode |-> FALSE]

\* the times sanitize is applied to a string, each on the result of the last
MaxCalls == 2

\* paragraph text without markup
PlainDocs ==
    { <<"a">>, <<"a b">>, <<"  a b ">>, <<"a", "b">>, <<"a", "", "b c">>, <<"Tom said hi">> }

\* the documents typed into the popup
PreviewDocs ==
    ScenarioDocs \cup PlainDocs
    \cup { <<"<b>x</b>">>, <<"&lt;">>, <<"a...">>, <<"x < y">>, <<"**b** [t](http://h.x)">> }

\* HTML given to HTMLOptimizer and to toPlainText by a caller other than the
\* parser
HtmlInputs ==
    { "", "x", "<p>a</p>",
      "<script>x</script>", "<SCRIPT src=\"u\"></SCRIPT >a",
      "<scr<script>x</script>ipt>alert(1)</script>",
      "<p onclick=\"a\">x</p>", "<p onload='a'>x</p>",
      "<p on onclick=\"a\"click=\"b\">x</p>",
      "<a href=\"javascript:alert(1)\">x</a>", "<a href = 'JavaScript:x'>x</a>",
      "<a href=\"http://h.x\">x</a>",
      "<img src=\"data:text/html,x\">", "<img src=\"data:image/png;base64,AA\">",
      "<img src=\"p.png\" alt=\"i\">",
      "<p class=\"c\" id=\"i\" style=\"font-size: 1.5em; color: red\">x</p><br><hr>",
      "<h1>T</h1><ul><li>a</li></ul><pre><code>c &lt; d</code></pre>",
      "<p></p><p>a <strong>b</strong> <em>c</em> <code>d</code> &amp;lt;</p>" }

\* the target ids optimize is called with: the registered ones, ids that are
\* not registered, and names every JavaScript object answers to
Targets ==
    RegisteredPlatforms
    \cup {"", "html", "markdown", "constructor", "toString", "valueOf", "__proto__"}

\* text given to DiagramHandler
DiagramTexts ==
    { "", "   ", " \n ", "hello", "A walk in the park.", "I love well-made tea.",
      "Is a > b?", "very nice",
      "+--+\n|ab|\n|cd|\n+--+", "+----+\n| ab |\n| cd |\n+----+", "+-+\n| |\n| |\n+-+",
      "¶¤¤¤¶\n¦ a ¦\n¶¤¤¤¶",
      "[A] --> [B]", "[A] [B]", "[A]\n[B]\n[C]", "[A] <-- [B]", "[A] ==> (B)",
      "[A] -.-> {B}", "[A] [A] [B]", "[C++] [C]", "[Sign-up] [Log-in]", "[-]", "+--+",
      "no nodes", "[A] -> [B] -> [C]", "{a} <== <b>", "[B]<-.-[A]" }

\* the string a call is made on: the parser's output once it has parsed, a
\* caller's own HTML before
Arguments == IF pc = "done" THEN {result} ELSE HtmlInputs

Called(op, target, argument, returned) ==
    call' = [op |-> op, target |-> target, argument |-> argument,
             returned |-> returned, depth |-> call.depth + 1]

\* optimizer.sanitize(html), on a string of Arguments or on the string the
\* sanitize before it returned
Sanitize ==
    /\ pc \in {"idle", "done"} /\ call.op \in {"none", "sanitize"} /\ call.depth < MaxCalls
    /\ \E html \in (IF call = NoCall THEN Arguments ELSE {call.returned.value}) :
           Called("sanitize", "", html, Returned(sanitize(html)))
    /\ UNCHANGED <<options, markdown, headings, footnotes, stack, pc, result, others>>

\* optimizer.optimize(html, format)
Optimize ==
    /\ pc \in {"idle", "done"} /\ call = NoCall
    /\ \E html \in Arguments, platform \in Targets :
           Called("optimize", platform, html, optimize(html, platform))
    /\ UNCHANGED <<options, markdown, headings, footnotes, stack, pc, result, others>>

\* parser.toPlainText(html)
ToPlainText ==
    /\ pc \in {"idle", "done"} /\ call = NoCall
    /\ \E html \in Arguments : Called("toPlainText", "", html, Returned(toPlainText(html)))
    /\ UNCHANGED <<options, markdown, headings, footnotes, stack, pc, result, others>>

\* diagramHandler.isAsciiDiagram(text)
IsAsciiDiagram ==
    /\ pc = "idle" /\ call = NoCall
    /\ \E text \in DiagramTexts :
           Called("isAsciiDiagram", "", text,
                  [threw |-> FALSE, type |-> "boolean",
                   value |-> IF isAsciiDiagram(text) THEN "true" ELSE "false"])
    /\ UNCHANGED <<options, markdown, headings, footnotes, stack, pc, result, others>>

\* diagramHandler.asciiToMermaid(asciiText)
AsciiToMermaid ==
    /\ pc = "idle" /\ call = NoCall
    /\ \E asciiText \in DiagramTexts :
           Called("asciiToMermaid", "", asciiText, asciiToMermaid(asciiText))
    /\ UNCHANGED <<options, markdown, headings, footnotes, stack, pc, result, others>>

\* the texts handed to mermaidToAscii: flowcharts with and without edges,
\* with an edge that skips a node, with an edge that runs upwards, with two
\* declarations on one line, with quoted and redeclared nodes, and texts
\* that declare no node
MermaidTexts ==
    {"", "graph TD", "A --> B",
     "A[a]",
     "A[a]\nB[b]",
     "A[a]\nB[b]\nA --> B",
     "A[a]\nB[b]\nB --> A",
     "A[a]\nB[b]\nC[c]\nA --> C",
     "A[a]\nB[b]\nC[c]\nB --> A",
     "A[a]\nB[b]\nC[c]\nA --> B\nB --> C",
     "A[a] --> B[b]",
     "graph TD\n    node0[\"Start\"]\n    node1[\"End\"]\n    node0 --> node1",
     "A[long text]\nB[b]\nA ==> B",
     "A[ab]\nB[c]\nA -.-> B",
     "A['q']\nB[x]\nA-->B",
     "A[a]\nA[bc]",
     "A[a]\nB[b]\nA -- B"}

\* diagramHandler.mermaidToAscii(text)
MermaidToAscii ==
    /\ pc = "idle" /\ call = NoCall
    /\ \E mermaidCode \in MermaidTexts :
           Called("mermaidToAscii", "", mermaidCode, mermaidToAscii(mermaidCode))
    /\ UNCHANGED <<options, markdown, headings, footnotes, stack, pc, result, others>>

\* the one parse call of updatePreview
FirstParse ==
    /\ pc = "idle" /\ call = NoCall
    /\ \E md \in PreviewDocs :
        /\ markdown' = md
        /\ headings' = <<>>
        /\ footnotes' = CollectFootnotes(md, <<>>)
        /\ stack' = <<Frame(Resplit(NonFootnoteLines(md)), 0)>>
        /\ pc' = "extracted"
        /\ result' = ""
    /\ UNCHANGED <<options, call, others>>

ClientInit ==
    /\ options = DefaultOptions
    /\ markdown = EmptyDocument
    /\ headings = <<>>
    /\ footnotes = <<>>
    /\ stack = <<>>
    /\ pc = "idle"
    /\ result = ""
    /\ call = NoCall
    /\ ComponentsInit

ClientNext ==
    \/ FirstParse
    \/ ParseBlocksEnter
    \/ SkipFootnoteDef
    \/ DefinitionList
    \/ CodeBlock
    \/ Table
    \/ Heading
    \/ HorizontalRule
    \/ Blockquote
    \/ BlockquoteReturn
    \/ UnorderedList
    \/ OrderedList
    \/ EmptyLine
    \/ Paragraph
    \/ ParseReturn
    \/ Sanitize
    \/ Optimize
    \/ ToPlainText
    \/ IsAsciiDiagram
    \/ AsciiToMermaid
    \/ MermaidToAscii

ClientSpec == ClientInit /\ [][ClientNext]_vars

----------------------------------------------------------------------------
(* DocumentExporter: the file name of an export *)

DefaultFilename == "exported-document"

\* name.toLowerCase()
RECURSIVE ToLowerCase(_)
ToLowerCase(s) == IF s = "" THEN "" ELSE LowerOf(CharAt(s, 0)) \o ToLowerCase(From(s, 1))

\* .replace(/[^a-z0-9]+/g, '-'), from index k
RECURSIVE HyphenateFrom(_, _)
HyphenateFrom(s, k) ==
    IF k >= Len(s) THEN ""
    ELSE IF CharAt(s, k) \in Lower \cup Digit THEN CharAt(s, k) \o HyphenateFrom(s, k + 1)
    ELSE "-" \o HyphenateFrom(s, RunNotIn(s, k, Lower \cup Digit))

MaxFilename == 50

\* .substring(0, MaxFilename)
Truncated(s) == IF Len(s) > MaxFilename THEN Sub(s, 0, MaxFilename) ELSE s

\* what setFilename(name) leaves in this.filename
OrDefault(s) == IF s = "" THEN DefaultFilename ELSE s
setFilename(name) ==
    OrDefault(StripEdgeHyphens(Truncated(HyphenateFrom(ToLowerCase(name), 0))))

\* /^#\s+(.+)$/m with the # at k: the indexes at which the capture can
\* start, after one white-space character at least, and the first the
\* matcher arrives at, which is the last of them (-1: no match at k)
TitleStarts(text, k) ==
    {j \in (k + 2)..RunIn(text, k + 1, WhiteSpace) :
        j < Len(text) /\ CharAt(text, j) \notin LineTerminator}
TitleStartAmong(starts) ==
    IF starts = {} THEN -1 ELSE CHOOSE j \in starts : \A other \in starts : other <= j
TitleStartAt(text, k) ==
    IF CharAt(text, k) = "#" /\ (k = 0 \/ CharAt(text, k - 1) \in LineTerminator)
    THEN TitleStartAmong(TitleStarts(text, k))
    ELSE -1

\* markdown.match(/^#\s+(.+)$/m): the capture of the leftmost match
TitleFrom(text, j) == Sub(text, j, RunNotIn(text, j, LineTerminator))
TitleAmong(text, matches) ==
    IF matches = {} THEN [found |-> FALSE, title |-> ""]
    ELSE [found |-> TRUE, title |-> TitleFrom(text, TitleStartAt(text, Min(matches)))]
TitleMatch(text) ==
    TitleAmong(text, {k \in 0..(Len(text) - 1) : TitleStartAt(text, k) >= 0})

\* what extractFilename(markdown) leaves in this.filename and returns
FilenameOf(filename, match) == IF match.found THEN setFilename(match.title) ELSE filename
extractFilename(filename, text) == FilenameOf(filename, TitleMatch(text))

\* the first statement of the four export methods
FilenameFor(filename, text) == IF text # "" THEN extractFilename(filename, text) ELSE filename

\* the documents exported: with and without a first-level heading, with the
\* heading after other lines, after a fenced line or after a lone #, with
\* titles that leave nothing or more than MaxFilename characters
ExportDocs ==
    { <<"# My Cool Report!">>,
      <<"# Plan">>,
      <<"notes only">>,
      <<"## Part two">>,
      <<"intro", "# Later Title">>,
      <<"# A", "# B">>,
      <<"# !!!">>,
      <<"# --a--">>,
      <<Fence, "# install", Fence, "# Guide">>,
      <<"#", "intro", "# Title">>,
      <<"# The quick brown fox jumps over the lazy dog and keeps running">>,
      <<"# abcdefghijklmnopqrstuvwxyzabcdefghijklmnopqrstuvw xyz">>,
      <<"#Tag">>,
      <<"# Report", "", "- a", "1. b", "---">>,
      <<"> q", "r">>,
      <<"|A|B|", "|-|-|", "|1|2|">>,
      <<"T", ": d">>,
      <<"[^1]: n", "a[^1]">>,
      <<"> [^1]: n", "a[^1]">> }

ExportFormats == {"html", "docx", "rtf", "pdf"}

\* exportDocument(format) up to the parse call of its updatePreview
ExportDocument ==
    /\ pc = "idle"
    /\ \E md \in ExportDocs :
        /\ markdown' = md
        /\ headings' = <<>>
        /\ footnotes' = CollectFootnotes(md, <<>>)
        /\ stack' = <<Frame(Resplit(NonFootnoteLines(md)), 0)>>
        /\ pc' = "extracted"
        /\ result' = ""
    /\ UNCHANGED <<options, call, others>>

\* exporter.exportHtml / exportDocx / exportRtf(this.currentHtml, markdown)
ExportFile ==
    /\ pc = "done"
    /\ \E format \in ExportFormats \ {"pdf"} :
           exporter' = [filename |-> FilenameFor(exporter.filename, Join(markdown, "\n")),
                        exported |-> FilenameFor(exporter.filename, Join(markdown, "\n"))
                                     \o "." \o format]
    /\ pc' = "idle"
    /\ UNCHANGED <<options, markdown, headings, footnotes, stack, result, call, besidesExporter>>

\* exporter.exportPdf(this.currentHtml, markdown): window.open gives a
\* window, or null when the pop-up is blocked
ExportPdf ==
    /\ pc = "done"
    /\ \E blocked \in BOOLEAN :
           exporter' = [filename |-> FilenameFor(exporter.filename, Join(markdown, "\n")),
                        exported |-> IF blocked THEN ""
                                     ELSE FilenameFor(exporter.filename, Join(markdown, "\n"))
                                          \o ".pdf"]
    /\ pc' = "idle"
    /\ UNCHANGED <<options, markdown, headings, footnotes, stack, result, call, besidesExporter>>

ExportNext ==
    \/ ExportDocument
    \/ ParseBlocksEnter
    \/ SkipFootnoteDef
    \/ DefinitionList
    \/ CodeBlock
    \/ Table
    \/ Heading
    \/ HorizontalRule
    \/ Blockquote
    \/ BlockquoteReturn
    \/ UnorderedList
    \/ OrderedList
    \/ EmptyLine
    \/ Paragraph
    \/ ParseReturn
    \/ ExportFile
    \/ ExportPdf

ExportSpec == ClientInit /\ [][ExportNext]_vars

----------------------------------------------------------------------------
(* DiagramHandler.mermaidToSvg and renderMermaidPlaceholders *)

\* escapeXml(text)
XmlEscape(c) ==
    CASE c = "&" -> "&amp;" [] c = "<" -> "&lt;" [] c = ">" -> "&gt;"
      [] c = "\"" -> "&quot;" [] c = "'" -> "&#39;" [] OTHER -> c
RECURSIVE escapeXml(_)
escapeXml(text) ==
    IF text = "" THEN "" ELSE XmlEscape(CharAt(text, 0)) \o escapeXml(From(text, 1))

ExcerptLines == 5
ExcerptWidth == 50

\* l.substring(0, 50)
ExcerptOf(l) == IF Len(l) > ExcerptWidth THEN Sub(l, 0, ExcerptWidth) ELSE l

\* lines.slice(0, 5).map(...).join(''), from line i
RECURSIVE Tspans(_, _)
Tspans(lines, i) ==
    IF i > Len(lines) \/ i > ExcerptLines THEN ""
    ELSE "<tspan x=\"10\" dy=\"" \o (IF i = 1 THEN "0" ELSE "16") \o "\">"
         \o escapeXml(ExcerptOf(lines[i])) \o "</tspan>" \o Tspans(lines, i + 1)

ErrorSvgOf(message, lines) ==
    "<svg xmlns=\"http://www.w3.org/2000/svg\" width=\"400\" height=\""
    \o ToString(100 + Len(lines) * 16) \o "\">\n"
    \o "      <rect width=\"100%\" height=\"100%\" fill=\"#fff3cd\"/>\n"
    \o "      <text x=\"10\" y=\"24\" fill=\"#856404\" font-family=\"sans-serif\" font-size=\"14\" font-weight=\"bold\">"
    \o escapeXml(message) \o "</text>\n"
    \o "      <text x=\"10\" y=\"48\" fill=\"#856404\" font-family=\"monospace\" font-size=\"12\">\n"
    \o "        " \o Tspans(lines, 1) \o "\n"
    \o "      </text>\n"
    \o "    </svg>"

createErrorSvg(message, code) == ErrorSvgOf(message, Split(code, "\n"))

Base64Alphabet == "ABCDEFGHIJKLMNOPQRSTUVWXYZabcdefghijklmnopqrstuvwxyz0123456789+/"
Base64Chars == {CharAt(Base64Alphabet, j) : j \in 0..(Len(Base64Alphabet) - 1)}

\* the characters of the codes 32 to 126
Ascii ==
    " !\"#$%&'()*+,-./0123456789:;<=>?@ABCDEFGHIJKLMNOPQRSTUVWXYZ[\\]^_"
    \o BackTick \o "abcdefghijklmnopqrstuvwxyz{|}~"

\* String.fromCharCode(b) for the bytes the encoded texts hold
CharOfCode(b) ==
    IF b = 10 THEN "\n" ELSE IF b = 9 THEN "\t"
    ELSE IF b >= 32 /\ b <= 126 THEN CharAt(Ascii, b - 32) ELSE "\r"

SixBits(data, k) == IndexOf(Base64Alphabet, CharAt(data, k), 0)

\* atob: the bytes of data from index k, data without its padding
RECURSIVE DecodeFrom(_, _)
DecodeFrom(data, k) ==
    IF Len(data) - k >= 4
    THEN CharOfCode(SixBits(data, k) * 4 + SixBits(data, k + 1) \div 16)
         \o CharOfCode((SixBits(data, k + 1) % 16) * 16 + SixBits(data, k + 2) \div 4)
         \o CharOfCode((SixBits(data, k + 2) % 4) * 64 + SixBits(data, k + 3))
         \o DecodeFrom(data, k + 4)
    ELSE IF Len(data) - k = 3
    THEN CharOfCode(SixBits(data, k) * 4 + SixBits(data, k + 1) \div 16)
         \o CharOfCode((SixBits(data, k + 1) % 16) * 16 + SixBits(data, k + 2) \div 4)
    ELSE IF Len(data) - k = 2
    THEN CharOfCode(SixBits(data, k) * 4 + SixBits(data, k + 1) \div 16)
    ELSE ""

\* atob(data): the padding of a text of 4n characters is dropped; a text of
\* 4n + 1 characters, or one with another character than the alphabet's,
\* throws
Unpadded(data) ==
    IF Len(data) % 4 = 0 /\ EndsWith(data, "==") THEN Sub(data, 0, Len(data) - 2)
    ELSE IF Len(data) % 4 = 0 /\ EndsWith(data, "=") THEN Sub(data, 0, Len(data) - 1)
    ELSE data
AtobOf(data) ==
    IF Len(data) % 4 = 1 \/ RunIn(data, 0, Base64Chars) < Len(data) THEN Thrown
    ELSE Returned(DecodeFrom(data, 0))
atob(data) == AtobOf(Unpadded(data))

\* /<!--MERMAID:([A-Za-z0-9+\/=]+)-->/ at k: the index after the match, -1
\* when there is none
PlaceholderOpen == "<!--MERMAID:"
PlaceholderClosed(html, b, e) == IF e > b /\ HasAt(html, "-->", e) THEN e + 3 ELSE -1
PlaceholderEnd(html, k) ==
    IF HasAt(html, PlaceholderOpen, k)
    THEN PlaceholderClosed(html, k + Len(PlaceholderOpen),
                           RunIn(html, k + Len(PlaceholderOpen), Base64Chars \cup {"="}))
    ELSE -1

\* the matches placeholderPattern.exec(html) returns one after the other,
\* from index k: match[0] and match[1]
RECURSIVE PlaceholdersFrom(_, _)
PlaceholdersAt(html, m, e) ==
    IF m < 0 THEN <<>>
    ELSE IF e < 0 THEN PlaceholdersFrom(html, m + 1)
    ELSE <<[text |-> Sub(html, m, e),
            payload |-> Sub(html, m + Len(PlaceholderOpen), e - 3)]>>
         \o PlaceholdersFrom(html, e)
PlaceholdersOpenedAt(html, m) ==
    PlaceholdersAt(html, m, IF m < 0 THEN -1 ELSE PlaceholderEnd(html, m))
PlaceholdersFrom(html, k) == PlaceholdersOpenedAt(html, IndexOf(html, PlaceholderOpen, k))

\* result.replace(match[0], svg), for an svg without $
ReplaceFirstAt(s, lit, repl, k) ==
    IF k < 0 THEN s ELSE Sub(s, 0, k) \o repl \o From(s, k + Len(lit))
ReplaceFirst(s, lit, repl) == ReplaceFirstAt(s, lit, repl, IndexOf(s, lit, 0))


\* the Mermaid texts rendered: without and with characters that escapeXml
\* changes, and one of six lines with a line of more than fifty characters
MermaidCodes ==
    { "graph TD\nA-->B",
      "flowchart LR\nA[\"a\"] --> B & <c>",
      "graph TD\nA[xxxxxxxxxxxxxxxxxxxxxxxxxxxxxxxxxxxxxxxxxxxxxxxxxxxx] --> B\nl3\nl4\nl5\nl6" }

\* what btoa makes of them
PayloadOf(code) ==
    CASE code = "graph TD\nA-->B" -> "Z3JhcGggVEQKQS0tPkI="
      [] code = "flowchart LR\nA[\"a\"] --> B & <c>" -> "Zmxvd2NoYXJ0IExSCkFbImEiXSAtLT4gQiAmIDxjPg=="
      [] OTHER -> "Z3JhcGggVEQKQVt4eHh4eHh4eHh4eHh4eHh4eHh4eHh4eHh4eHh4eHh4eHh4eHh4eHh4eHh4eHh4eHh4eHh4XSAtLT4gQgpsMwpsNApsNQpsNg=="

PlaceholderOf(code) == PlaceholderOpen \o PayloadOf(code) \o "-->"

\* the HTML handed to renderMermaidPlaceholders: the placeholders
\* processMarkdown leaves, none, one, two, and the same one twice
PlaceholderHtmls ==
    {"<p>a</p>"}
    \cup {"<p>a</p>\n" \o PlaceholderOf(c) : c \in MermaidCodes}
    \cup {PlaceholderOf("graph TD\nA-->B") \o "<p>b</p>" \o PlaceholderOf(c) : c \in MermaidCodes}

\* what mermaid.render(id, code) resolves to, and the message it throws with
EngineSvgs == {"<svg id=\"m\"><g></g></svg>"}
EngineErrors == {"Parse error on line 2", "No diagram type detected"}

\* the call of mermaidToSvg(mermaidCode), up to its first test of mermaid
CallMermaidToSvg(r, caller, mermaidCode) ==
    [r EXCEPT !.caller = caller, !.pc = "check", !.code = mermaidCode, !.svg = Pending]

\* renderMermaidDiagram of the popup: await this.diagramHandler.mermaidToSvg(selected.text)
RenderMermaidDiagram ==
    /\ renderer.pc = "idle"
    /\ \E mermaidCode \in MermaidCodes :
           renderer' = CallMermaidToSvg([renderer EXCEPT !.html = "", !.result = "",
                                                         !.matches = <<>>, !.done = Pending],
                                        "popup", mermaidCode)
    /\ UNCHANGED <<parserVars, besidesRenderer>>

\* renderMermaidPlaceholders(html), up to the first exec
RenderMermaidPlaceholders ==
    /\ renderer.pc = "idle"
    /\ \E html \in PlaceholderHtmls :
           renderer' = [renderer EXCEPT !.caller = "placeholders", !.pc = "exec",
                                        !.html = html, !.result = html,
                                        !.matches = PlaceholdersFrom(html, 0),
                                        !.code = "", !.svg = Pending, !.done = Pending]
    /\ UNCHANGED <<parserVars, besidesRenderer>>

\* the test of the while loop: return result when exec finds no more match,
\* else atob(match[1]), which can throw, and the call of mermaidToSvg
ExecPlaceholder ==
    /\ renderer.pc = "exec"
    /\ renderer' =
         IF Len(renderer.matches) = 0
         THEN [renderer EXCEPT !.pc = "returned", !.done = Fulfilled(renderer.result)]
         ELSE IF atob(renderer.matches[1].payload).threw
         THEN [renderer EXCEPT !.pc = "returned", !.done = Rejected("InvalidCharacterError")]
         ELSE CallMermaidToSvg(renderer, "placeholders", atob(renderer.matches[1].payload).value)
    /\ UNCHANGED <<parserVars, besidesRenderer>>

\* if (typeof mermaid === 'undefined') await this.loadMermaid()
CheckMermaid ==
    /\ renderer.pc = "check"
    /\ renderer' = [renderer EXCEPT !.pc = IF renderer.mermaid THEN "checked" ELSE "loading"]
    /\ UNCHANGED <<parserVars, besidesRenderer>>

\* script.onload: the script has run, and has defined mermaid unless it failed
ScriptLoaded ==
    /\ renderer.pc = "loading"
    /\ \E defined \in BOOLEAN :
           renderer' = [renderer EXCEPT !.mermaid = defined, !.mermaidInitialized = FALSE,
                                        !.pc = "checked"]
    /\ UNCHANGED <<parserVars, besidesRenderer>>

\* script.onerror: loadMermaid rejects, and the await in mermaidToSvg, which
\* stands before its try, rejects mermaidToSvg
ScriptFailed ==
    /\ renderer.pc = "loading"
    /\ renderer' = [renderer EXCEPT !.pc = "settled", !.svg = Rejected("Failed to load Mermaid")]
    /\ UNCHANGED <<parserVars, besidesRenderer>>

\* the second test of mermaid, and mermaid.initialize
InitializeMermaid ==
    /\ renderer.pc = "checked"
    /\ renderer' =
         IF ~renderer.mermaid
         THEN [renderer EXCEPT !.pc = "settled",
                   !.svg = Fulfilled(createErrorSvg("Mermaid library not available",
                                                    renderer.code))]
         ELSE [renderer EXCEPT !.pc = "render", !.mermaidInitialized = TRUE]
    /\ UNCHANGED <<parserVars, besidesRenderer>>

\* await mermaid.render(id, mermaidCode) resolves
RenderResolves ==
    /\ renderer.pc = "render"
    /\ \E svg \in EngineSvgs :
           renderer' = [renderer EXCEPT !.pc = "settled", !.svg = Fulfilled(svg)]
    /\ UNCHANGED <<parserVars, besidesRenderer>>

\* mermaid.render throws or rejects: the catch of mermaidToSvg
RenderThrows ==
    /\ renderer.pc = "render"
    /\ \E message \in EngineErrors :
           renderer' = [renderer EXCEPT !.pc = "settled",
                            !.svg = Fulfilled(createErrorSvg("Mermaid error: " \o message,
                                                             renderer.code))]
    /\ UNCHANGED <<parserVars, besidesRenderer>>

\* the popup takes the svg, or shows the failure
DiagramRendered ==
    /\ renderer.pc = "settled" /\ renderer.caller = "popup"
    /\ renderer' = [renderer EXCEPT !.pc = "idle", !.caller = "none"]
    /\ UNCHANGED <<parserVars, besidesRenderer>>

\* the body of the while loop after the await: the svg, or in the catch the
\* error placeholder, replaces match[0] in result
ReplacePlaceholder ==
    /\ renderer.pc = "settled" /\ renderer.caller = "placeholders"
    /\ renderer' =
         [renderer EXCEPT
            !.pc = "exec",
            !.matches = Tail(renderer.matches),
            !.result = ReplaceFirst(renderer.result, renderer.matches[1].text,
                          IF renderer.svg.state = "fulfilled" THEN renderer.svg.value
                          ELSE createErrorSvg("Mermaid rendering failed", renderer.code))]
    /\ UNCHANGED <<parserVars, besidesRenderer>>

\* the caller of renderMermaidPlaceholders has its result
PlaceholdersRendered ==
    /\ renderer.pc = "returned"
    /\ renderer' = [renderer EXCEPT !.pc = "idle", !.caller = "none"]
    /\ UNCHANGED <<parserVars, besidesRenderer>>

RenderNext ==
    \/ RenderMermaidDiagram
    \/ RenderMermaidPlaceholders
    \/ ExecPlaceholder
    \/ CheckMermaid
    \/ ScriptLoaded
    \/ ScriptFailed
    \/ InitializeMermaid
    \/ RenderResolves
    \/ RenderThrows
    \/ DiagramRendered
    \/ ReplacePlaceholder
    \/ PlaceholdersRendered

RenderSpec == ClientInit /\ [][RenderNext]_vars

----------------------------------------------------------------------------
(* ClipboardManager *)

MaxHistorySize == 10
StoredHistorySize == 5

\* history.slice(0, n)
Take(history, n) == IF Len(history) > n THEN SubSeq(history, 1, n) ELSE history

\* saveHistory(): the set of chrome.storage.local takes the five first
\* entries as they are at the call; saved is whether the set succeeds
saveHistory(c, saved) ==
    IF saved
    THEN [c EXCEPT !.stored = [present |-> TRUE,
                               copyHistory |-> Take(c.copyHistory, StoredHistorySize)]]
    ELSE c

\* recordCopy(html, text, type): Date.now() is the number of the call
EntryOf(c, html, text, type) ==
    [html |-> html, text |-> text, type |-> type, timestamp |-> c.clock + 1,
     id |-> "copy_" \o ToString(c.clock + 1)]
Unshifted(c, entry) ==
    [c EXCEPT !.lastCopied = entry, !.copyHistory = <<entry>> \o c.copyHistory,
              !.clock = c.clock + 1]
TrimHistory(c) ==
    IF Len(c.copyHistory) > MaxHistorySize
    THEN [c EXCEPT !.copyHistory = Take(c.copyHistory, MaxHistorySize)]
    ELSE c
recordCopy(c, html, text, type, saved) ==
    saveHistory(TrimHistory(Unshifted(c, EntryOf(c, html, text, type))), saved)

\* a clearHistory that leaves lastCopied as it is
clearHistoryKeepingLast(c, saved) == saveHistory([c EXCEPT !.copyHistory = <<>>], saved)

\* clearHistory()
clearHistory(c, saved) ==
    saveHistory([c EXCEPT !.copyHistory = <<>>, !.lastCopied = NoEntry], saved)

\* the result objects of the copy operations: the properties they have, and
\* their values
ApiResult ==
    [success |-> TRUE, method |-> "clipboard-api", error |-> "", warning |-> Null,
     details |-> "", fields |-> {"success", "method"}]
FallbackCopyResult(success) ==
    [success |-> success, method |-> "execCommand", error |-> "",
     warning |-> IF success THEN Null ELSE Str("Copy may not preserve formatting"),
     details |-> "", fields |-> {"success", "method", "warning"}]
FallbackTextResult(success) ==
    [success |-> success, method |-> "execCommand", error |-> "", warning |-> Null,
     details |-> "", fields |-> {"success", "method"}]
FailureResult(error, details) ==
    [success |-> FALSE, method |-> "", error |-> error, warning |-> Null,
     details |-> details, fields |-> {"success", "error", "details"}]

\* what document.execCommand('copy') and the DOM calls around it do in a
\* fallback: the copy is made, it is refused (false, or an exception of
\* execCommand itself), or a DOM call throws
FallbackOutcomes == {"copied", "refused", "throws"}

\* the message of the error the clipboard API rejects with
ApiError == "Write permission denied."
DomError == "Cannot read properties of null"

\* fallbackCopy(htmlContent, plainTextContent) and fallbackCopyText(text)
\* with an outcome other than "throws": the entry recorded and the result
Settled(c, object) == [c EXCEPT !.op.pc = "settled", !.op.result = Fulfilled(object)]
Attempted(c) == [c EXCEPT !.op.attempts = c.op.attempts + 1]
fallbackCopy(c, outcome, saved) ==
    IF outcome = "copied"
    THEN Settled(recordCopy(Attempted(c), c.op.html, c.op.text, "formatted-fallback", saved),
                 FallbackCopyResult(TRUE))
    ELSE Settled(Attempted(c), FallbackCopyResult(FALSE))
fallbackCopyText(c, outcome, saved) ==
    IF outcome = "copied"
    THEN Settled(recordCopy(Attempted(c), Null, c.op.text, "plain-fallback", saved),
                 FallbackTextResult(TRUE))
    ELSE Settled(Attempted(c), FallbackTextResult(FALSE))

\* the fallback of the running function
Fallback(c, outcome, saved) ==
    IF c.op.running = "copyFormatted" THEN fallbackCopy(c, outcome, saved)
    ELSE fallbackCopyText(c, outcome, saved)
FallbackFailure(c, details) ==
    IF c.op.running = "copyFormatted"
    THEN FailureResult("Unable to access clipboard. Please check permissions.", details)
    ELSE FailureResult("Unable to copy text.", details)

\* the catch block of copyFormatted and of copyPlainText for an error with
\* the message details: the fallback in a try of its own
CatchBlock(c, details, outcome, saved) ==
    IF outcome = "throws" THEN Settled(Attempted(c), FallbackFailure(c, details))
    ELSE Fallback(c, outcome, saved)

\* copyFormatted / copyPlainText without the clipboard API: the fallback is
\* called in the try block, and what it throws is caught by the catch block
\* of the same function, which calls it again
WithoutApi(c, first, second, saved) ==
    IF first = "throws" THEN CatchBlock(Attempted(c), DomError, second, saved)
    ELSE Fallback(c, first, saved)

\* the call of a copy operation up to its await, or to its end when the
\* clipboard API is not there
Writing(c) == [c EXCEPT !.op.pc = "writing"]
Started(c, name, html, text) ==
    [c EXCEPT !.op = [name |-> name, running |-> name, pc |-> "called", html |-> html,
                      text |-> text, attempts |-> 0, result |-> Pending]]
Entered(c, available, first, second, saved) ==
    IF available THEN Writing(c) ELSE WithoutApi(c, first, second, saved)

\* what is copied: the HTML and the plain text of the preview
CopyContents == {[html |-> "<p>a</p>", text |-> "a"], [html |-> "<h1>T</h1>", text |-> "T"]}

MaxCopies == 3

\* clipboard.copyFormatted(html, text)
CopyFormatted ==
    /\ clipboard.op.pc = "idle" /\ clipboard.clock < MaxCopies
    /\ \E content \in CopyContents, available \in BOOLEAN,
          first \in FallbackOutcomes, second \in FallbackOutcomes, saved \in BOOLEAN :
           clipboard' = Entered(Started(clipboard, "copyFormatted",
                                        Str(content.html), Str(content.text)),
                                available, first, second, saved)
    /\ UNCHANGED <<parserVars, besidesClipboard>>

\* clipboard.copyPlainText(text)
CopyPlainText ==
    /\ clipboard.op.pc = "idle" /\ clipboard.clock < MaxCopies
    /\ \E content \in CopyContents, available \in BOOLEAN,
          first \in FallbackOutcomes, second \in FallbackOutcomes, saved \in BOOLEAN :
           clipboard' = Entered(Started(clipboard, "copyPlainText", Null, Str(content.text)),
                                available, first, second, saved)
    /\ UNCHANGED <<parserVars, besidesClipboard>>

\* clipboard.copyHtmlOnly(html): without navigator.clipboard.write it
\* returns copyPlainText(html)
CopyHtmlOnly ==
    /\ clipboard.op.pc = "idle" /\ clipboard.clock < MaxCopies
    /\ \E content \in CopyContents, available \in BOOLEAN, textAvailable \in BOOLEAN,
          first \in FallbackOutcomes, second \in FallbackOutcomes, saved \in BOOLEAN :
           clipboard' =
               IF available
               THEN Writing(Started(clipboard, "copyHtmlOnly", Str(content.html), Null))
               ELSE Entered([Started(clipboard, "copyHtmlOnly", Null, Str(content.html))
                                EXCEPT !.op.running = "copyPlainText"],
                            textAvailable, first, second, saved)
    /\ UNCHANGED <<parserVars, besidesClipboard>>

\* the type recordCopy is given after a write of the clipboard API
ApiType(running) ==
    CASE running = "copyFormatted" -> "formatted"
      [] running = "copyPlainText" -> "plain"
      [] OTHER -> "html-only"

\* await navigator.clipboard.write / writeText resolves
ClipboardWriteResolves ==
    /\ clipboard.op.pc = "writing"
    /\ \E saved \in BOOLEAN :
           clipboard' = Settled(recordCopy(clipboard, clipboard.op.html, clipboard.op.text,
                                           ApiType(clipboard.op.running), saved),
                                ApiResult)
    /\ UNCHANGED <<parserVars, besidesClipboard>>

\* await navigator.clipboard.write / writeText rejects: the catch block
ClipboardWriteRejects ==
    /\ clipboard.op.pc = "writing"
    /\ \E outcome \in FallbackOutcomes, saved \in BOOLEAN :
           clipboard' =
               IF clipboard.op.running = "copyHtmlOnly"
               THEN Settled(clipboard, FailureResult("Unable to copy HTML.", ApiError))
               ELSE CatchBlock(clipboard, ApiError, outcome, saved)
    /\ UNCHANGED <<parserVars, besidesClipboard>>

\* the caller has the result of the copy operation
CopyReturns ==
    /\ clipboard.op.pc = "settled"
    /\ clipboard' = [clipboard EXCEPT !.op = NoCopy]
    /\ UNCHANGED <<parserVars, besidesClipboard>>

ClipboardNext ==
    \/ CopyFormatted
    \/ CopyPlainText
    \/ CopyHtmlOnly
    \/ ClipboardWriteResolves
    \/ ClipboardWriteRejects
    \/ CopyReturns

ClipboardSpec == ClientInit /\ [][ClipboardNext]_vars

----------------------------------------------------------------------------
(* ClipboardManager: the copy history *)

MaxRecords == 11

\* the arguments of recordCopy
RecordArguments ==
    { [html |-> Str("<p>a</p>"), text |-> Str("a"), type |-> "formatted"] }

\* recordCopy(html, text, type)
RecordCopy ==
    /\ clipboard.clock < MaxRecords
    /\ \E a \in RecordArguments, saved \in BOOLEAN :
           clipboard' = recordCopy(clipboard, a.html, a.text, a.type, saved)
    /\ UNCHANGED <<parserVars, besidesClipboard>>

\* clearHistory()
ClearHistory ==
    /\ \E saved \in BOOLEAN : clipboard' = clearHistory(clipboard, saved)
    /\ UNCHANGED <<parserVars, besidesClipboard>>

\* loadHistory() up to its await: the get of chrome.storage.local reads the
\* key as it is now; a get that throws leaves everything as it is
LoadHistory ==
    /\ ~clipboard.loading.pending
    /\ clipboard' = [clipboard EXCEPT !.loading = [pending |-> TRUE,
                                                   present |-> clipboard.stored.present,
                                                   copyHistory |-> clipboard.stored.copyHistory]]
    /\ UNCHANGED <<parserVars, besidesClipboard>>

\* this.copyHistory[0] || null
FirstOrNull(history) == IF Len(history) = 0 THEN NoEntry ELSE history[1]

\* loadHistory() after its await: an array, the empty one too, replaces
\* copyHistory
HistoryLoaded ==
    /\ clipboard.loading.pending
    /\ clipboard' =
         IF clipboard.loading.present
         THEN [clipboard EXCEPT !.copyHistory = clipboard.loading.copyHistory,
                                !.lastCopied = FirstOrNull(clipboard.loading.copyHistory),
                                !.loading = ClipboardInit.loading]
         ELSE [clipboard EXCEPT !.loading = ClipboardInit.loading]
    /\ UNCHANGED <<parserVars, besidesClipboard>>

HistoryNext ==
    \/ RecordCopy
    \/ ClearHistory
    \/ LoadHistory
    \/ HistoryLoaded

HistorySpec == ClientInit /\ [][HistoryNext]_vars

----------------------------------------------------------------------------
(* StorageManager.save and its listeners *)

\* { ...settings, ...newSettings }
Spread(settings, newSettings) ==
    [k \in DOMAIN settings \cup DOMAIN newSettings |->
        IF k \in DOMAIN newSettings THEN newSettings[k] ELSE settings[k]]

\* the objects given to save: none, one key, two keys, and the values that
\* are there already
NewSettings ==
    { <<>>,
      [theme |-> "dark"],
      [theme |-> "system"],
      [autoClear |-> TRUE],
      [theme |-> "light", autoClear |-> TRUE] }

MaxListeners == 2

\* addListener(callback): the callbacks are numbered as they are registered;
\* no call comes between the return of save and the continuation of its caller
AddListener ==
    /\ Len(storage.listeners) < MaxListeners /\ storage.save.pc # "returned"
    /\ storage' = [storage EXCEPT !.listeners = Append(storage.listeners,
                                                       Len(storage.listeners) + 1)]
    /\ UNCHANGED <<parserVars, besidesStorage>>

\* notifyListeners(event, data): one call of each listener, in order
RECURSIVE NotificationsOf(_, _, _)
NotificationsOf(listeners, event, data) ==
    IF Len(listeners) = 0 THEN <<>>
    ELSE <<[listener |-> listeners[1], event |-> event, data |-> data]>>
         \o NotificationsOf(Tail(listeners), event, data)
notifyListeners(st, event, data) ==
    [st EXCEPT !.notified = st.notified \o NotificationsOf(st.listeners, event, data)]

\* the end of the try block of save, and its catch block
SaveSucceeds(st) ==
    [notifyListeners([st EXCEPT !.written = st.settings], "settingsChanged", st.settings)
        EXCEPT !.save.pc = "returned",
               !.save.returned = Fulfilled([success |-> TRUE, error |-> ""])]
SaveFails(st, message) ==
    [st EXCEPT !.save.pc = "returned",
               !.save.returned = Fulfilled([success |-> FALSE, error |-> message])]

StorageErrors == {"QUOTA_BYTES quota exceeded"}

\* save(newSettings) up to its await: the settings are merged first; outside
\* an extension localStorage.setItem is called, which returns or throws
SaveCalled(st, newSettings) ==
    [st EXCEPT !.settings = Spread(st.settings, newSettings),
               !.notified = <<>>,
               !.save = [pc |-> "writing", before |-> st.settings,
                         newSettings |-> newSettings, returned |-> Pending]]
Save ==
    /\ storage.save.pc = "idle"
    /\ \E newSettings \in NewSettings, extension \in BOOLEAN, thrown \in BOOLEAN :
           storage' =
               IF extension THEN SaveCalled(storage, newSettings)
               ELSE IF thrown
               THEN SaveFails(SaveCalled(storage, newSettings), CHOOSE e \in StorageErrors : TRUE)
               ELSE SaveSucceeds(SaveCalled(storage, newSettings))
    /\ UNCHANGED <<parserVars, besidesStorage>>

\* await chrome.storage.sync.set(this.settings) resolves
WriteResolves ==
    /\ storage.save.pc = "writing"
    /\ storage' = SaveSucceeds(storage)
    /\ UNCHANGED <<parserVars, besidesStorage>>

\* await chrome.storage.sync.set(this.settings) rejects
WriteRejects ==
    /\ storage.save.pc = "writing"
    /\ \E message \in StorageErrors : storage' = SaveFails(storage, message)
    /\ UNCHANGED <<parserVars, besidesStorage>>

\* the caller of save has its result
SaveReturns ==
    /\ storage.save.pc = "returned"
    /\ storage' = [storage EXCEPT !.save = NoSave]
    /\ UNCHANGED <<parserVars, besidesStorage>>

StorageNext ==
    \/ AddListener
    \/ Save
    \/ WriteResolves
    \/ WriteRejects
    \/ SaveReturns

StorageSpec == ClientInit /\ [][StorageNext]_vars

----------------------------------------------------------------------------
(* MarkdownFormatterApp: the input handlers and the preview timer *)

\* the delay debouncePreview uses when settings.previewDebounce is falsy
DefaultDebounce == 300

\* the values settings.previewDebounce is loaded with
PreviewDebounces == {0, 100}

\* the values of the markdown input
InputValues == {"", "# T"}

\* time passes in steps of TimeStep ms, and the time since the last input
\* is kept up to MaxElapsed ms
TimeStep == 100
MaxElapsed == 400
MaxInputs == 3
MaxPastes == 1
MaxDirect == 1

\* clearTimeout(handle) and setTimeout(callback, delay) for the preview
\* timers: a timer is its handle and the time left until it is due
clearTimeout(timers, handle) == {t \in timers : t.id # handle}
setTimeout(timers, handle, delay) == timers \cup {[id |-> handle, remaining |-> delay]}

\* this.settings.previewDebounce || 300
DelayOf(previewDebounce) == IF previewDebounce = 0 THEN DefaultDebounce ELSE previewDebounce

\* what the parser and the optimizer make of the values of the input
PreviewOf(value) ==
    IF value = "# T" THEN [html |-> "<h1>T</h1>", text |-> "T"] ELSE [html |-> "", text |-> ""]

\* updatePreview(): the preview is rendered from the value of the input
Ran(a) == [a EXCEPT !.previewed = a.value,
                    !.currentHtml = PreviewOf(a.value).html,
                    !.currentPlainText = PreviewOf(a.value).text,
                    !.earliest = IF a.earliest = -1 THEN a.elapsed ELSE a.earliest]
updatePreviewFromTimer(a) == [Ran(a) EXCEPT !.timerRuns = a.timerRuns + 1]
updatePreview(a) == [Ran(a) EXCEPT !.directRuns = a.directRuns + 1]

\* debouncePreview() without its clearTimeout
debouncePreviewKeepingTimer(a) ==
    [a EXCEPT !.timers = setTimeout(a.timers, a.handles + 1, DelayOf(a.previewDebounce)),
              !.debounceTimer = a.handles + 1,
              !.handles = a.handles + 1,
              !.delay = DelayOf(a.previewDebounce)]

\* debouncePreview()
debouncePreview(a) ==
    [a EXCEPT !.timers = setTimeout(clearTimeout(a.timers, a.debounceTimer),
                                    a.handles + 1, DelayOf(a.previewDebounce)),
              !.debounceTimer = a.handles + 1,
              !.handles = a.handles + 1,
              !.delay = DelayOf(a.previewDebounce)]

\* handleInput() is called: a new burst of input, or its next event
Counted(a) ==
    [a EXCEPT !.inputs = a.inputs + 1, !.elapsed = 0, !.scheduled = a.livePreview,
              !.debounce = a.previewDebounce, !.delay = 0, !.timerRuns = 0, !.directRuns = 0, !.earliest = -1]
handleInput(a) == IF a.livePreview THEN debouncePreview(Counted(a)) ELSE Counted(a)

\* init() reads the settings
SettingsLoaded ==
    /\ ~app.loaded
    /\ \E live \in BOOLEAN, debounce \in PreviewDebounces, clear \in BOOLEAN :
           app' = [app EXCEPT !.loaded = TRUE, !.livePreview = live,
                              !.previewDebounce = debounce, !.autoClear = clear]
    /\ UNCHANGED <<parserVars, besidesApp>>

\* an input event of the markdown input; the listeners are bound by init()
\* after the settings are read
HandleInput ==
    /\ app.loaded /\ app.inputs + app.pastes < MaxInputs
    /\ \E value \in InputValues : app' = handleInput([app EXCEPT !.value = value])
    /\ UNCHANGED <<parserVars, besidesApp>>

\* a paste event: handlePaste(e) sets a timer of 0 ms for handleInput
HandlePaste ==
    /\ app.loaded /\ app.inputs + app.pastes < MaxInputs /\ app.pastes < MaxPastes
    /\ \E value \in InputValues : app' = [app EXCEPT !.value = value, !.pastes = app.pastes + 1]
    /\ UNCHANGED <<parserVars, besidesApp>>

\* the timer of handlePaste fires
PasteTimeout ==
    /\ app.pastes > 0
    /\ app' = handleInput([app EXCEPT !.pastes = app.pastes - 1])
    /\ UNCHANGED <<parserVars, besidesApp>>

\* TimeStep ms pass
Sooner(remaining) == IF remaining > TimeStep THEN remaining - TimeStep ELSE 0
Later(elapsed) == IF elapsed + TimeStep < MaxElapsed THEN elapsed + TimeStep ELSE MaxElapsed
Tick ==
    /\ app' = [app EXCEPT !.timers = {[t EXCEPT !.remaining = Sooner(t.remaining)] :
                                          t \in app.timers},
                          !.elapsed = Later(app.elapsed)]
    /\ UNCHANGED <<parserVars, besidesApp>>

\* a timer of debouncePreview is due and its callback runs updatePreview()
DebounceTimeout ==
    /\ \E t \in app.timers :
           /\ t.remaining = 0
           /\ app' = updatePreviewFromTimer([app EXCEPT !.timers = app.timers \ {t}])
    /\ UNCHANGED <<parserVars, besidesApp>>

\* a change event of the format select: handleFormatChange()
HandleFormatChange ==
    /\ app.loaded /\ app.directRuns < MaxDirect
    /\ app.value \notin {"", " "}
    /\ app' = updatePreview(app)
    /\ UNCHANGED <<parserVars, besidesApp>>

PreviewNext ==
    \/ SettingsLoaded
    \/ HandleInput
    \/ HandlePaste
    \/ PasteTimeout
    \/ Tick
    \/ DebounceTimeout
    \/ HandleFormatChange

PreviewSpec == ClientInit /\ [][PreviewNext]_vars

\* the timers of the browser fire and time passes
PreviewFairSpec == PreviewSpec /\ WF_vars(Tick) /\ WF_vars(DebounceTimeout) /\ WF_vars(PasteTimeout)

----------------------------------------------------------------------------
(* MarkdownFormatterApp: the keyboard shortcuts and the copies they start *)

MaxKeys == 1

\* the keydown events: Escape, and Enter with the modifier keys
KeyEvents ==
    {[NoKey EXCEPT !.key = "Escape"]}
        \cup {e \in [key : {"Enter"}, ctrlKey : BOOLEAN, metaKey : BOOLEAN, shiftKey : BOOLEAN] :
                 ~(e.ctrlKey /\ e.metaKey)}

\* the conditions of handleKeyboard(e)
CopyKey(e) == (e.ctrlKey \/ e.metaKey) /\ e.key = "Enter"
CopyPlainKey(e) == (e.ctrlKey \/ e.metaKey) /\ e.shiftKey /\ e.key = "Enter"

\* the function of ClipboardManager a copy function of the popup calls
ManagerFunction(name) == IF name = "copyFormatted" THEN "copyFormatted" ELSE "copyPlainText"
HtmlArgument(a, name) == IF name = "copyFormatted" THEN Str(a.currentHtml) ELSE Null

\* clearInput()
clearInput(a) == [a EXCEPT !.value = "", !.previewed = "", !.currentHtml = "",
                           !.currentPlainText = ""]

\* copyFormatted() / copyPlain() after the await: the status shown for the
\* result, and the input cleared when settings.autoClear is set
SuccessMessage(name) ==
    IF name = "copyFormatted" THEN "Copied formatted text!" ELSE "Copied plain text!"
FailureMessage(object) == IF object.error = "" THEN "Failed to copy" ELSE object.error
Shown(a, message) == [a EXCEPT !.status = message]
Finished(a, name, object) ==
    IF object.success
    THEN IF a.autoClear THEN clearInput(Shown(a, SuccessMessage(name)))
         ELSE Shown(a, SuccessMessage(name))
    ELSE Shown(a, FailureMessage(object))

\* the popup and the ClipboardManager, as one copy function leaves them
Both(a, c) == [app |-> a, clipboard |-> c]
CopyReturned(a, c, name) == Both(Finished(a, name, c.op.result.value), [c EXCEPT !.op = NoCopy])

\* document.execCommand('copy') of a fallback has put the copy on the clipboard
Copied(a, name, copied) == IF copied THEN [a EXCEPT !.systemClipboard = name] ELSE a

\* the copy function without the clipboard API: the fallback, synchronously
FallbackCopies(first, second) == first = "copied" \/ (first = "throws" /\ second = "copied")
CopiedWithoutApi(a, c, name, env) ==
    CopyReturned(Copied(a, name, FallbackCopies(env.first, env.second)),
             WithoutApi(Started(c, ManagerFunction(name), HtmlArgument(a, name),
                                Str(a.currentPlainText)),
                        env.first, env.second, env.saved),
             name)

\* the copy function with the clipboard API: up to the await of the write
WriteOf(a, name) ==
    [name |-> name, key |-> a.keys, html |-> HtmlArgument(a, name),
     text |-> Str(a.currentPlainText)]
Written(a, name) == [a EXCEPT !.writes = Append(a.writes, WriteOf(a, name))]

\* copyFormatted() / copyPlain() up to the first await that is not settled
CopyCalled(a, name) == [a EXCEPT !.started = Append(a.started, name)]
CopyAfterPreview(a, c, name, env) ==
    IF env.available THEN Both(Written(a, name), c) ELSE CopiedWithoutApi(a, c, name, env)
Copy(w, name, env) ==
    IF Trim(w.app.value) = ""
    THEN Both(Shown(CopyCalled(w.app, name), "Nothing to copy"), w.clipboard)
    ELSE CopyAfterPreview(updatePreview(CopyCalled(w.app, name)), w.clipboard, name, env)

\* handleKeyboard(e)
closeAllModals(a) == [a EXCEPT !.historyModal = FALSE]
Keyed(a, e) ==
    [(IF e.key = "Escape" THEN closeAllModals(a) ELSE a)
        EXCEPT !.keys = a.keys + 1, !.key = e, !.started = <<>>]
AfterFormatted(w, e, env) == IF CopyKey(e) THEN Copy(w, "copyFormatted", env) ELSE w
AfterPlain(w, e, env) == IF CopyPlainKey(e) THEN Copy(w, "copyPlain", env) ELSE w
handleKeyboard(a, c, e, formatted, plain) ==
    AfterPlain(AfterFormatted(Both(Keyed(a, e), c), e, formatted), e, plain)

\* what the browser does with the copies of one function: whether the
\* clipboard API is there, what the fallbacks do, whether the history is saved
\* (one environment for the choices that what happened does not read)
WithApi == [available |-> TRUE, first |-> "copied", second |-> "copied", saved |-> TRUE]
CopyEnvironments ==
    {WithApi} \cup
    {env \in [available : {FALSE}, first : FallbackOutcomes, second : FallbackOutcomes,
              saved : BOOLEAN] :
        /\ env.first # "throws" => env.second = "copied"
        /\ ~FallbackCopies(env.first, env.second) => env.saved}
KeyEnvironments ==
    {envs \in CopyEnvironments \X CopyEnvironments : envs[1].available = envs[2].available}

\* a keydown event of the document
KeyDown ==
    /\ app.loaded /\ app.keys < MaxKeys
    /\ \E e \in KeyEvents, envs \in KeyEnvironments :
           /\ app' = handleKeyboard(app, clipboard, e, envs[1], envs[2]).app
           /\ clipboard' = handleKeyboard(app, clipboard, e, envs[1], envs[2]).clipboard
    /\ UNCHANGED <<parserVars, exporter, renderer, storage>>

\* the history button: openHistory()
OpenHistory ==
    /\ app.loaded /\ ~app.historyModal
    /\ app' = [app EXCEPT !.historyModal = TRUE]
    /\ UNCHANGED <<parserVars, besidesApp>>

\* the writes without the one at position k
WritesWithout(writes, k) == SubSeq(writes, 1, k - 1) \o SubSeq(writes, k + 1, Len(writes))

\* a write of the clipboard API resolves: the clipboard of the system has
\* its content, the copy is recorded, and the copy function of the popup
\* goes on after its await
CopyWriteResolves ==
    /\ \E k \in DOMAIN app.writes, saved \in BOOLEAN :
           /\ app' = Finished([app EXCEPT !.writes = WritesWithout(app.writes, k),
                                          !.systemClipboard = app.writes[k].name],
                              app.writes[k].name, ApiResult)
           /\ clipboard' = recordCopy(clipboard, app.writes[k].html, app.writes[k].text,
                                      ApiType(ManagerFunction(app.writes[k].name)), saved)
    /\ UNCHANGED <<parserVars, exporter, renderer, storage>>

\* a write of the clipboard API rejects: the catch block and its fallback
Caught(a, c, name, outcome, saved) ==
    CopyReturned(Copied(a, name, outcome = "copied"),
             CatchBlock(c, ApiError, outcome, saved), name)
CopyWriteRejects ==
    /\ \E k \in DOMAIN app.writes, outcome \in FallbackOutcomes, saved \in BOOLEAN :
           /\ app' = Caught([app EXCEPT !.writes = WritesWithout(app.writes, k)],
                            Started(clipboard, ManagerFunction(app.writes[k].name),
                                    app.writes[k].html, app.writes[k].text),
                            app.writes[k].name, outcome, saved).app
           /\ clipboard' = Caught([app EXCEPT !.writes = WritesWithout(app.writes, k)],
                                  Started(clipboard, ManagerFunction(app.writes[k].name),
                                          app.writes[k].html, app.writes[k].text),
                                  app.writes[k].name, outcome, saved).clipboard
    /\ UNCHANGED <<parserVars, exporter, renderer, storage>>

ShortcutNext ==
    \/ SettingsLoaded
    \/ HandleInput
    \/ KeyDown
    \/ OpenHistory
    \/ CopyWriteResolves
    \/ CopyWriteRejects

ShortcutSpec == ClientInit /\ [][ShortcutNext]_vars

----------------------------------------------------------------------------
(* Properties *)

\* the number of places at which lit occurs in s
Occurrences(s, lit) == Cardinality({j \in 0..(Len(s) - Len(lit)) : HasAt(s, lit, j)})

\* the cursor of the running activation after the step
CursorAfter == stack'[Len(stack)].i
\* the blocks of the running activation after the step, and the last of them
BlocksAfter == stack'[Len(stack)].blocks
Pushed == BlocksAfter[Len(BlocksAfter)]
\* the step pushes exactly one block onto the running activation's blocks
PushesOne ==
    /\ Len(stack') = Len(stack)
    /\ Len(BlocksAfter) = Len(Top.blocks) + 1
    /\ SubSeq(BlocksAfter, 1, Len(Top.blocks)) = Top.blocks
\* one iteration of the parseBlocks loop that stays within its activation
LoopIteration ==
    pc = "blocks" /\ pc' = "blocks" /\ Len(stack') = Len(stack) /\ stack' # stack

\* C1: every iteration of the parseBlocks loop leaves the cursor strictly
\* greater than it found it, so that parse terminates on every document.
C1_CursorAdvances == [][LoopIteration => CursorAfter > Top.i]_vars

\* the top-level footnote definitions of the document parse was given
TopLevelFootnotes == CollectFootnotes(markdown, <<>>)

\* C2: when parse has returned for a document that holds a top-level
\* footnote-definition line, the result holds no such line, exactly one
\* footnotes section, and in it one list item for each distinct footnote id
\* with that id's definition text.
C2_FootnotesSectionAppended ==
    (pc = "done" /\ Len(TopLevelFootnotes) > 0) =>
        /\ Occurrences(result, "<section class=\"footnotes\"") = 1
        /\ EndsWith(result, renderFootnotes(options, TopLevelFootnotes))
        /\ Occurrences(result, "<li id=\"fn-") = Len(TopLevelFootnotes)

\* the document holds a line, not itself a definition, that refers to id
HasReference(id) ==
    \E k \in 1..Len(markdown) :
        ~IsFootnoteDef(markdown[k]) /\ Includes(markdown[k], "[^" \o id \o "]")

\* C3: when parse has returned for a document that holds a reference [^id]
\* and a top-level definition line of the same id, the result holds the
\* reference anchor (href "#fn-id", id "fnref-id") and the footnote list item
\* of id "fn-id" with its back-reference anchor (href "#fnref-id").
C3_FootnoteAnchorsRoundTrip ==
    pc = "done" =>
        \A k \in 1..Len(TopLevelFootnotes) :
            LET id == TopLevelFootnotes[k].id IN
            HasReference(id) =>
                /\ Includes(result, "<a href=\"#fn-" \o id \o "\" id=\"fnref-" \o id \o "\">")
                /\ Includes(result, "<li id=\"fn-" \o id \o "\"")
                /\ Includes(result, "<a href=\"#fnref-" \o id \o "\"")

\* the checkbox a task line asks for
TaskCheckbox(line) ==
    IF Includes(line, "[x]") \/ Includes(line, "[X]") THEN CheckboxChecked ELSE CheckboxUnchecked

\* C4: a list that starts at a task line ("- [ ] text", "- [x] text") is
\* rendered with a first item that begins with a disabled checkbox, checked
\* exactly when the marker is [x] or [X], followed by the formatted text
\* without the bracket marker.
C4_TaskLineGivesCheckbox ==
    [][(AtLine /\ IsTaskLine(Line)
          /\ Branch(Top.lines, Top.i) \in {"ul", "task"})
        => /\ PushesOne
           /\ Includes(Pushed, ">" \o TaskCheckbox(Line)
                                   \o parseInline(options, From(Line, TaskContentStart(Line)))
                                   \o "</li>")]_vars

\* what a heading step has to do with the line at the cursor: one <hn>
\* element pushed, n the number of # characters, holding the formatted title
\* and the slug of the title as its id, and one entry {n, title, slug}
\* appended to the heading list
HeadingStepOk ==
    LET n == RunIn(Line, 0, {"#"})
        tag == "h" \o ToString(n)
        e == headings'[Len(headings')]
    IN /\ n \in 1..6
       /\ Len(headings') = Len(headings) + 1
       /\ SubSeq(headings', 1, Len(headings)) = headings
       /\ e.level = n
       /\ Len(e.text) > 0 /\ EndsWith(Line, e.text)
       /\ Len(Line) - Len(e.text) > n
       /\ Trim(Sub(Line, n, Len(Line) - Len(e.text))) = ""
       /\ e.id = slugify(e.text)
       /\ PushesOne
       /\ CursorAfter = Top.i + 1
       /\ StartsWith(Pushed, "<" \o tag \o " id=\"" \o e.id \o "\"")
       /\ EndsWith(Pushed, ">" \o parseInline(options, e.text) \o "</" \o tag \o ">")
       /\ Occurrences(Pushed, "<h") = 1

\* C5: every line of one to six # characters, white space and a
\* title, whatever follows it, produces exactly one <hn> element with the
\* formatted title and the title's slug as id, and one heading entry.
C5_HeadingLineGivesHeading == [][(AtLine /\ HeadingLevel(Line) > 0) => HeadingStepOk]_vars

\* C6: the id parse gives a heading equals the slug of that heading's
\* table-of-contents link, for every heading parse has recorded.
C6_HeadingIdIsTocSlug ==
    \A k \in 1..Len(headings) : headings[k].id = TocSlug(TocText(headings[k].text))

\* the alignments of the cells of a table, in document order: the X of each
\* text-align:X; that ends a cell's style attribute
RECURSIVE AlignmentsFrom(_, _)
AlignmentsFrom(html, k) ==
    LET j == IndexOf(html, "text-align:", k)
        e == RunIn(html, j + 11, Lower)
    IN IF j < 0 THEN <<>>
       ELSE (IF HasAt(html, ";\">", e) THEN <<Sub(html, j + 11, e)>> ELSE <<>>)
                \o AlignmentsFrom(html, e)
CellAlignments(html) == AlignmentsFrom(html, 0)

\* the number of cells of a table line
CellCount(line) == Occurrences(StripEdgePipes(line), "|") + 1

\* the index after the table rows that follow the separator at index k - 1
TableEnd(lines, k) ==
    Min({j \in k..Len(lines) : j = Len(lines) \/ ~Includes(LineAt(lines, j), "|")})

\* what a table step has to do with the header at the cursor, the separator
\* after it and the pipe-holding lines that follow, Wanted(cell) the
\* alignment a separator cell asks for
TableStepOk(Wanted(_)) ==
    LET lines == Top.lines
        end == TableEnd(lines, Top.i + 2)
        separators == parseTableRow(LineAt(lines, Top.i + 1))
        rows == <<Top.i>> \o [k \in 1..(end - Top.i - 2) |-> Top.i + 1 + k]
        RECURSIVE wanted(_, _)
        wanted(r, c) ==
            IF r > Len(rows) THEN <<>>
            ELSE IF c >= CellCount(LineAt(lines, rows[r])) THEN wanted(r + 1, 0)
            ELSE <<IF c < Len(separators) THEN Wanted(separators[c + 1]) ELSE "left">>
                     \o wanted(r, c + 1)
        RECURSIVE cells(_)
        cells(r) == IF r > Len(rows) THEN 0 ELSE CellCount(LineAt(lines, rows[r])) + cells(r + 1)
    IN /\ PushesOne
       /\ CursorAfter = end
       /\ Occurrences(Pushed, "<table") = 1
       /\ Occurrences(Pushed, "<tr>") = Len(rows)
       /\ Occurrences(Pushed, "<th ") = CellCount(Line)
       /\ Occurrences(Pushed, "<td ") = cells(2)
       /\ CellAlignments(Pushed) = wanted(1, 0)

\* the alignment of a separator cell as C7 words it: ':-:' center, '-:' right,
\* otherwise left
AlignmentAsWorded(cell) ==
    LET h == RunIn(cell, 1, {"-"})
        r == RunIn(cell, 0, {"-"})
    IN IF StartsWith(cell, ":") /\ h > 1 /\ From(cell, h) = ":" THEN "center"
       ELSE IF r > 0 /\ From(cell, r) = ":" THEN "right"
       ELSE "left"

\* the alignment of a separator cell by its first and last character
AlignmentByEnds(cell) ==
    IF cell # "" /\ CharAt(cell, 0) = ":" /\ CharAt(cell, Len(cell) - 1) = ":" THEN "center"
    ELSE IF cell # "" /\ CharAt(cell, Len(cell) - 1) = ":" THEN "right"
    ELSE "left"

\* the line at the cursor holds a pipe and a separator line follows it
HeaderAndSeparator ==
    /\ Top.i + 1 < Len(Top.lines)
    /\ Includes(Line, "|")
    /\ IsSeparatorLine(LineAt(Top.lines, Top.i + 1))

\* C7 as stated: a pipe-holding header line followed by a separator line gives
\* one table with one header cell per header column and one body row per
\* following pipe-holding line, column i aligned as separator cell i says
\* (':-:' center, '-:' right, otherwise left) and left where a row has more
\* cells than the separator.
C7_HeaderAndSeparatorGiveTable ==
    [][(AtLine /\ HeaderAndSeparator) => TableStepOk(AlignmentAsWorded)]_vars

\* C7 amended: a pipe-holding header line followed by a separator line, when
\* no earlier test of the chain takes the header (the separator is no ": text"
\* line and the header opens no fence), gives one table with one header cell
\* per header column and one body row per following pipe-holding line; column
\* i is centered when separator cell i begins and ends with ':', right-aligned
\* when it only ends with ':', else left-aligned, and left-aligned where a row
\* has more cells than the separator.
C7_TableBranchGivesTable ==
    [][(AtLine /\ Branch(Top.lines, Top.i) = "table") => TableStepOk(AlignmentByEnds)]_vars

\* the table of header |A|B|, separator |-|-:| and row |1|2| has just been
\* pushed: two header cells and two body cells, left and right
C7_Witness ==
    /\ pc = "blocks" /\ Len(stack) = 1 /\ Top.i = 3
    /\ Top.lines = <<"|A|B|", "|-|-:|", "|1|2|">>
    /\ Len(Top.blocks) = 1
    /\ CellAlignments(Top.blocks[1]) = <<"left", "right", "left", "right">>

\* the index of the first line after the cursor that is a closing fence, or
\* the number of lines when there is none
ClosingFence ==
    Min({j \in (Top.i + 1)..Len(Top.lines) :
            j = Len(Top.lines) \/ LineAt(Top.lines, j) = Fence})

\* what a code-block step has to do with the opening fence at the cursor: one
\* <pre><code> element pushed that holds the escaped lines up to the closing
\* fence (all remaining lines when there is none), and the cursor left just
\* after the closing fence, which ends the loop when there is none
FenceStepOk ==
    /\ PushesOne
    /\ CursorAfter = ClosingFence + 1
    /\ (ClosingFence = Len(Top.lines) => CursorAfter >= Len(Top.lines))
    /\ StartsWith(Pushed, "<pre")
    /\ EndsWith(Pushed, ">" \o escapeHtml(Join(LinesBetween(Top.lines, Top.i + 1, ClosingFence), "\n"))
                            \o "</code></pre>")
    /\ Occurrences(Pushed, "<code") = 1

C9_BreaksGiveLineBreaks ==
    [][(AtLine /\ Branch(Top.lines, Top.i) = "paragraph"
          /\ ParagraphEnd(Top.lines, Top.i) - Top.i >= 2)
        => /\ PushesOne
           /\ Occurrences(Pushed, "<br>")
                  = IF options.breaks THEN ParagraphEnd(Top.lines, Top.i) - Top.i - 1 ELSE 0]_vars

\* the index after the <code ...> tag that opens at index k of html
CodeContentStart(html, k) == IndexOf(html, ">", k) + 1

\* C10: in what parse returns, no <code> element holds a tag: the content of
\* a code span is the escaped original text.
C10_CodeSpanContentUntouched ==
    pc = "done" =>
        \A k \in 0..(Len(result) - 1) :
            HasAt(result, "<code", k) =>
                LET b == CodeContentStart(result, k)
                    e == IndexOf(result, "</code>", b)
                IN e >= b /\ ~Includes(Sub(result, b, e), "<")

\* C11: with linkify enabled, no anchor element of what parse returns holds
\* another anchor: an <a ...> tag is followed by its </a> with no second
\* <a ...> tag in between.
C11_AutolinkNeverDoubleWraps ==
    (pc = "done" /\ options.linkify) =>
        \A k \in 0..(Len(result) - 1) :
            HasAt(result, "<a ", k) =>
                LET e == IndexOf(result, "</a>", k)
                IN e >= 0 /\ ~Includes(Sub(result, k + 1, e), "<a ")

\* the tags of html in document order, a code element taken whole (its tags
\* and its content)
RECURSIVE TagsFrom(_, _)
TagsFrom(html, k) ==
    LET j == IndexOf(html, "<", k)
        e == IndexOf(html, ">", j)
        c == IndexOf(html, "</code>", e)
    IN IF j < 0 THEN <<>>
       ELSE IF e < 0 THEN <<From(html, j)>>
       ELSE IF HasAt(html, "<code", j)
            THEN IF c < 0 THEN <<From(html, j)>>
                 ELSE <<Sub(html, j, c + 7)>> \o TagsFrom(html, c + 7)
       ELSE <<Sub(html, j, e + 1)>> \o TagsFrom(html, e + 1)
ProtectedText(html) == TagsFrom(html, 0)

\* C12: with typographer enabled, the tags (with their attribute text and
\* quote delimiters) and the code elements of a paragraph are the ones the
\* same paragraph has with typographer disabled.
C12_TypographerLeavesTagsAndCode ==
    [][(AtLine /\ Branch(Top.lines, Top.i) = "paragraph" /\ options.typographer)
        => /\ PushesOne
           /\ ProtectedText(Pushed)
                  = ProtectedText(parseParagraph([options EXCEPT !.typographer = FALSE],
                                                 Top.lines, Top.i).html)]_vars

\* the entities escapeHtml writes
Entities == {"&amp;", "&lt;", "&gt;", "&quot;", "&#39;"}

\* C13: in what parse returns, every & begins one of the five entities of
\* escapeHtml and every < begins a tag (a letter or / follows it): the special
\* characters of the input are present as their entities only.
C13_SpecialCharactersStayEntities ==
    pc = "done" =>
        \A k \in 0..(Len(result) - 1) :
            /\ CharAt(result, k) = "&" => \E ent \in Entities : HasAt(result, ent, k)
            /\ CharAt(result, k) = "<" => CharAt(result, k + 1) \in Lower \cup {"/"}

\* C14: a sanitize applied to the string a sanitize returned returns that
\* string unchanged: sanitize(sanitize(h)) = sanitize(h).
C14_SanitizeIdempotent ==
    (call.op = "sanitize" /\ call.depth > 1) => call.returned.value = call.argument

\* what sanitize is to remove: script elements, quoted on* attributes, the
\* javascript: href, the src with a data: URL that is no image
Unsafe ==
    << [kind |-> "script"],
       [kind |-> "attribute", handler |-> TRUE, quote |-> "\""],
       [kind |-> "attribute", handler |-> TRUE, quote |-> "'"],
       [kind |-> "urlAttribute", attr |-> "href", scheme |-> "javascript:", unless |-> ""],
       [kind |-> "urlAttribute", attr |-> "src", scheme |-> "data:", unless |-> "image/"] >>
HoldsUnsafe(html) ==
    \E i \in 1..Len(Unsafe), k \in 0..(Len(html) - 1) : TagMatchEnd(Unsafe[i], html, k) > k

\* C15: what sanitize returns holds no script element, no quoted event
\* handler attribute, no href that starts with javascript: and no src with a
\* data: URL other than data:image/.
C15_SanitizedHoldsNothingUnsafe ==
    call.op = "sanitize" => ~HoldsUnsafe(call.returned.value)

\* the profile registered for a platform id
Registered(platform, html) ==
    CASE platform = "google-docs" -> optimizeForGoogleDocs(html)
      [] platform = "microsoft-word" -> optimizeForWord(html)
      [] platform = "notion" -> optimizeForNotion(html)
      [] platform = "slack" -> optimizeForSlack(html)
      [] platform = "universal" -> optimizeUniversal(html)

\* C16: optimize(html, target) returns what the profile registered for target
\* returns, and what optimizeUniversal returns for every target that is not
\* registered.
C16_OptimizeDispatches ==
    call.op = "optimize" =>
        call.returned = Returned(IF call.target \in RegisteredPlatforms
                                 THEN Registered(call.target, call.argument)
                                 ELSE optimizeUniversal(call.argument))

\* an HTML tag starts at k: <, an optional /, a letter, and a > after them
HtmlTagAt(s, k) ==
    /\ CharAt(s, k) = "<"
    /\ CharAt(s, IF CharAt(s, k + 1) = "/" THEN k + 2 ELSE k + 1) \in Lower \cup Upper
    /\ RunNotIn(s, k + 1, {">"}) < Len(s)

\* C17: the slack profile, given what the parser returned, returns a string
\* without HTML tags.
C17_SlackOutputHasNoTags ==
    (call.op = "optimize" /\ call.target = "slack" /\ pc = "done") =>
        \A k \in 0..(Len(call.returned.value) - 1) : ~HtmlTagAt(call.returned.value, k)

\* a document of paragraph text without markup: letters, spaces and the
\* punctuation of prose, none of which markdown reads as markup
PlainText(md) ==
    \A i \in 1..Len(md) : \A k \in 0..(Len(md[i]) - 1) :
        CharAt(md[i], k) \in Lower \cup Upper \cup {" ", ".", ",", ";", "&"}

\* C18: for a document of paragraph text without markup, parsed with the
\* default options, toPlainText of what parse returned is the document trimmed.
C18_PlainTextRoundTrip ==
    (call.op = "toPlainText" /\ pc = "done" /\ PlainText(markdown)) =>
        call.returned.value = Trim(Join(markdown, "\n"))

\* a box of four lines of one width drawn with +, - and |
FourLineBox(text) ==
    LET lines == Split(text, "\n") IN
    /\ Len(lines) = 4
    /\ \A i \in 1..4 : Len(lines[i]) = Len(lines[1]) /\ Len(lines[i]) >= 3
    /\ \A i \in {1, 4} : BoxEdgeEnd(lines[i], 0) = Len(lines[i])
    /\ \A i \in {2, 3} : StartsWith(lines[i], "|") /\ EndsWith(lines[i], "|")

\* one short sentence of prose: a capital, then words of letters with the
\* hyphens and apostrophes words hold, commas, and a full stop
MaxSentence == 40
ProseSentence(text) ==
    /\ Len(text) >= 2 /\ Len(text) <= MaxSentence
    /\ CharAt(text, 0) \in Upper
    /\ CharAt(text, Len(text) - 1) = "."
    /\ \A k \in 1..(Len(text) - 2) : CharAt(text, k) \in Lower \cup {" ", ",", "-", "'"}

\* C19: isAsciiDiagram(text) is true exactly when text is not blank and its
\* score is at least 4; it is true of every four-line box of one width drawn
\* with +, - and |, false of every single short prose sentence and false of
\* empty and whitespace-only text.
C19_DiagramsAreDetected ==
    call.op = "isAsciiDiagram" =>
        /\ call.returned.value = "true"
               <=> (Trim(call.argument) # "" /\ DiagramScore(call.argument) >= 4)
        /\ FourLineBox(call.argument) => call.returned.value = "true"
        /\ ProseSentence(call.argument) => call.returned.value = "false"
        /\ Trim(call.argument) = "" => call.returned.value = "false"

\* the node labels of a text: what its brackets hold, trimmed, each once, in
\* the order of first occurrence
RECURSIVE LabelsFrom(_, _, _)
LabelsFrom(s, k, labels) ==
    LET starts == {j \in k..(Len(s) - 1) : NodeEnd(s, j) > j /\ BoxEdgeEnd(s, j) < 0}
        m == Min(starts)
        label == Trim(Sub(s, m + 1, NodeEnd(s, m) - 1))
    IN IF starts = {} THEN labels
       ELSE LabelsFrom(s, NodeEnd(s, m),
                IF label # "" /\ \A i \in 1..Len(labels) : labels[i] # label
                THEN Append(labels, label) ELSE labels)
RECURSIVE LabelsOf(_, _)
LabelsOf(lines, labels) ==
    IF Len(lines) = 0 THEN labels ELSE LabelsOf(Tail(lines), LabelsFrom(lines[1], 0, labels))

\* the text holds no arrow
NoArrow(text) == \A i \in 1..Len(ArrowPatterns) : ~Includes(text, ArrowPatterns[i].find)

\* C20: asciiToMermaid returns null when the text holds no node label;
\* otherwise it declares one node for each distinct label, node0, node1, ...
\* and, when the text holds no arrow and n >= 2 labels, exactly the n - 1
\* edges node_i --> node_(i+1).
C20_MermaidDeclaresEveryLabel ==
    call.op = "asciiToMermaid" =>
        LET labels == LabelsOf(Split(call.argument, "\n"), <<>>)
            n == Len(labels)
            out == call.returned
        IN IF n = 0 THEN out = NullValue
           ELSE /\ out.type = "string"
                /\ Occurrences(out.value, "[\"") = n
                /\ \A i \in 0..(n - 1) : Occurrences(out.value, NodeId(i) \o "[\"") = 1
                /\ (NoArrow(call.argument) /\ n >= 2) =>
                       /\ Occurrences(out.value, " --> ") = n - 1
                       /\ \A i \in 0..(n - 2) :
                              Includes(out.value,
                                  "    " \o NodeId(i) \o " --> " \o NodeId(i + 1) \o "\n")
\* the boxes of entries from index i, with an arrow under the boxes of arrows
RECURSIVE BoxesWith(_, _, _, _)
BoxesWith(entries, boxWidth, arrows, i) ==
    IF i > Len(entries) THEN ""
    ELSE BoxOf(entries[i].text, boxWidth)
         \o (IF i \in arrows THEN ArrowDown(boxWidth) ELSE "")
         \o BoxesWith(entries, boxWidth, arrows, i + 1)

\* the boxes under which the flowchart allows an arrow: those whose node has
\* an edge to the node of the next box
EdgesDown(entries, connections) ==
    {i \in 1..(Len(entries) - 1) :
        \E j \in 1..Len(connections) :
            connections[j].from = entries[i].id /\ connections[j].to = entries[i + 1].id}

\* C21: mermaidToAscii returns null when the text declares no node; otherwise
\* it returns the declared nodes in declaration order as boxes of one width,
\* and an arrow stands between two consecutive boxes only when the flowchart
\* has an edge from the node of the upper box to the node of the lower box
C21_ArrowsFollowEdges ==
    call.op = "mermaidToAscii" =>
        LET entries == NodeTextsOf(Split(call.argument, "\n"), <<>>)
            connections == ConnectionsOf(Split(call.argument, "\n"))
        IN  IF Len(entries) = 0 THEN call.returned = NullValue
            ELSE /\ call.returned.type = "string"
                 /\ \E arrows \in SUBSET EdgesDown(entries, connections) :
                        call.returned.value
                            = BoxesWith(entries, MaxTextLength(entries) + 4, arrows, 1)

\* an export has returned, and markdown is the document it was given
Exported == pc = "idle" /\ markdown # EmptyDocument

\* the titles of the first-level headings the parser found, in document order
RECURSIVE TopLevelTitles(_)
TopLevelTitles(hs) ==
    IF Len(hs) = 0 THEN <<>>
    ELSE (IF hs[1].level = 1 THEN <<hs[1].text>> ELSE <<>>) \o TopLevelTitles(Tail(hs))

\* a title in lower case, each run of other characters than a-z and 0-9 as
\* one hyphen, cut to 50 characters, without a hyphen at either end
BaseName(title) ==
    LET hyphenated == HyphenateFrom(ToLowerCase(title), 0)
        cut == IF Len(hyphenated) > 50 THEN Sub(hyphenated, 0, 50) ELSE hyphenated
    IN StripEdgeHyphens(cut)

WellFormedName(name) ==
    /\ name # ""
    /\ Len(name) <= 50
    /\ \A j \in 0..(Len(name) - 1) : CharAt(name, j) \in Lower \cup Digit \cup {"-"}
    /\ ~StartsWith(name, "-")
    /\ ~EndsWith(name, "-")

\* C22: after the export of a document whose first first-level heading is
\* "# T", the base file name is T in lower case with each run of characters
\* other than a-z and 0-9 as one hyphen, cut to 50 characters and without a
\* hyphen at either end (the fixed name when that leaves nothing); and the
\* file name is always non-empty, at most 50 characters of a-z, 0-9 and "-",
\* with no hyphen at either end
C22_FilenameFromFirstHeading ==
    /\ WellFormedName(exporter.filename)
    /\ (Exported /\ Len(TopLevelTitles(headings)) > 0) =>
           exporter.filename = (IF BaseName(TopLevelTitles(headings)[1]) = ""
                                THEN "exported-document"
                                ELSE BaseName(TopLevelTitles(headings)[1]))

\* C23: whatever was exported before, the export of a document without a
\* first-level heading uses the fixed base file name "exported-document"
C23_NoHeadingGivesFixedName ==
    (Exported /\ Len(TopLevelTitles(headings)) = 0) =>
        /\ exporter.filename = "exported-document"
        /\ exporter.exported \in {"", "exported-document.html", "exported-document.docx",
                                  "exported-document.rtf", "exported-document.pdf"}

\* the messages of the failures mermaidToSvg reports in a placeholder
FailureMessages ==
    {"Mermaid library not available"} \cup {"Mermaid error: " \o e : e \in EngineErrors}

\* svg is an error placeholder for code: it holds a failure message, and of
\* the source its first five lines at most, fifty characters of each at most
IsErrorPlaceholder(svg, code) ==
    LET lines == Split(code, "\n")
        shown == IF Len(lines) > 5 THEN 5 ELSE Len(lines)
    IN /\ \E message \in FailureMessages : Includes(svg, ">" \o escapeXml(message) \o "</text>")
       /\ Occurrences(svg, "<tspan") = shown
       /\ \A i \in 1..shown :
              Includes(svg, ">" \o escapeXml(IF Len(lines[i]) > 50 THEN Sub(lines[i], 0, 50)
                                             ELSE lines[i]) \o "</tspan>")

MermaidToSvgSettles ==
    renderer.pc = "settled" =>
        /\ renderer.svg.state = "fulfilled"
        /\ \/ renderer.svg.value \in EngineSvgs
           \/ IsErrorPlaceholder(renderer.svg.value, renderer.code)

PlaceholdersAllReplaced ==
    renderer.pc = "returned" =>
        /\ renderer.done.state = "fulfilled"
        /\ PlaceholdersFrom(renderer.done.value, 0) = <<>>
        /\ Occurrences(renderer.done.value, "<svg")
               = Len(PlaceholdersFrom(renderer.html, 0))

\* C24: mermaidToSvg never rejects: with the engine missing, failing to load
\* or throwing it resolves to an error placeholder that holds the failure
\* message and at most five lines of at most fifty characters of the source;
\* and renderMermaidPlaceholders always resolves, with every placeholder
\* replaced by a rendered SVG or an error placeholder
C24_RenderingNeverRejects ==
    /\ renderer.svg.state # "rejected"
    /\ MermaidToSvgSettles
    /\ PlaceholdersAllReplaced

\* a copy operation has reported failure
CopyFailed ==
    /\ clipboard.op.pc = "settled"
    /\ clipboard.op.result.state = "fulfilled"
    /\ ~clipboard.op.result.value.success

\* C25: a copy operation never rejects; one that reports failure has tried
\* the fallback exactly once, and its result has next to success = false an
\* error message
C25_CopyFailureIsReported ==
    /\ clipboard.op.result.state # "rejected"
    /\ clipboard.op.pc = "settled" => clipboard.op.result.state = "fulfilled"
    /\ CopyFailed =>
           /\ clipboard.op.attempts = 1
           /\ "error" \in clipboard.op.result.value.fields
           /\ clipboard.op.result.value.error # ""

\* the heading entry comes from a heading line of the document, and the
\* footnote from one of its definition lines
HeadingOfDocument(h, doc) ==
    \E i \in 1..Len(doc) : Includes(doc[i], "#") /\ EndsWith(doc[i], h.text)
FootnoteOfDocument(f, doc) ==
    \E i \in 1..Len(doc) : Includes(doc[i], "[^" \o f.id \o "]:")

\* C26: after a parse call has returned, the heading list and the footnote
\* table hold nothing but headings and footnotes of the document of that
\* call, and they are empty when that document is empty, whatever was parsed
\* before
C26_ParserKeepsNoState ==
    pc = "done" =>
        /\ \A i \in 1..Len(headings) : HeadingOfDocument(headings[i], markdown)
        /\ \A i \in 1..Len(footnotes) : FootnoteOfDocument(footnotes[i], markdown)
        /\ markdown = EmptyDocument => (headings = <<>> /\ footnotes = <<>> /\ result = "")

\* copyHistory of c has at most ten entries, the newest first, and lastCopied
\* is the first of them, or null when there is none
HistoryInOrder(c) ==
    /\ Len(c.copyHistory) <= 10
    /\ \A i \in 1..Len(c.copyHistory), j \in 1..Len(c.copyHistory) :
           i < j => c.copyHistory[i].timestamp > c.copyHistory[j].timestamp
    /\ c.lastCopied = (IF Len(c.copyHistory) = 0 THEN NoEntry ELSE c.copyHistory[1])

\* the snapshot in storage is the five newest entries of c, or all when
\* there are fewer
SnapshotOfNewest(c) ==
    /\ c.stored.present
    /\ Len(c.stored.copyHistory) <= 5
    /\ c.stored.copyHistory
           = [i \in 1..(IF Len(c.copyHistory) > 5 THEN 5 ELSE Len(c.copyHistory))
                  |-> c.copyHistory[i]]

\* C27: after every recordCopy, clearHistory and loadHistory step copyHistory
\* holds at most ten entries with the newest first and lastCopied is its
\* first entry (null when it is empty), and a step that writes the stored
\* snapshot writes the at most five newest entries
C27_HistoryBoundedNewestFirst ==
    [][/\ HistoryInOrder(clipboard')
       /\ clipboard'.stored # clipboard.stored => SnapshotOfNewest(clipboard')]_vars

\* the eleventh copy has been recorded and saved: the history was cut to ten
\* entries and the snapshot to five
C27_Witness ==
    /\ clipboard.clock = 11
    /\ Len(clipboard.copyHistory) = 10
    /\ clipboard.lastCopied.timestamp = 11
    /\ clipboard.stored.present
    /\ Len(clipboard.stored.copyHistory) = 5
    /\ clipboard.stored.copyHistory[1].timestamp = 11

SaveReturned == storage.save.pc = "returned" /\ storage.save.returned.state = "fulfilled"

\* C28: a save whose write throws returns success = false with the error,
\* leaves the settings as they were before the call and notifies no listener;
\* a save that succeeds leaves the old settings overridden by newSettings and
\* has notified each listener once, with "settingsChanged"
C28_SaveIsAtomic ==
    SaveReturned =>
        IF storage.save.returned.value.success
        THEN /\ storage.settings = Spread(storage.save.before, storage.save.newSettings)
             /\ \A l \in 1..Len(storage.listeners) :
                    Cardinality({n \in 1..Len(storage.notified) :
                                     storage.notified[n].listener = storage.listeners[l]}) = 1
             /\ \A n \in 1..Len(storage.notified) :
                    storage.notified[n].event = "settingsChanged"
        ELSE /\ storage.save.returned.value.error # ""
             /\ storage.settings = storage.save.before
             /\ storage.notified = <<>>

\* C29: with livePreview on, every call of handleInput cancels the timer it
\* set before and sets a new one, so at most one preview timer is pending at
\* any time; after the last call of a burst the timer runs updatePreview
\* exactly once, no earlier than the delay (previewDebounce, 300 when that is
\* 0) after that call.  Other handlers run updatePreview directly and at
\* once, without the timer.
OnePending == Cardinality(app.timers) <= 1
TimerRunsOnceInTime ==
    app.scheduled =>
        /\ app.timerRuns <= 1
        /\ app.timerRuns = 1 =>
               /\ app.timers = {}
               /\ app.elapsed >= app.delay
               /\ app.delay >= app.debounce
        /\ app.timerRuns = 0 => \E t \in app.timers : t.id = app.debounceTimer
        /\ \A t \in app.timers : t.remaining + app.elapsed >= app.delay
TimerRuns == (app.timers # {}) ~> (app.timers = {} /\ app.timerRuns = 1)
C29_TimerRunsOncePerBurst == [](OnePending /\ TimerRunsOnceInTime) /\ TimerRuns
C29_Witness ==
    /\ app.scheduled /\ app.inputs = MaxInputs /\ app.timerRuns = 1
    /\ app.handles = MaxInputs /\ app.directRuns = 0
    /\ app.previewed = app.value /\ app.value # ""

\* C29 as the specification states it: updatePreview runs exactly once after
\* a burst, whoever calls it, and no earlier than previewDebounce ms after
\* the last input event
C29_UpdatePreviewRunsOnce ==
    app.scheduled =>
        /\ app.timerRuns + app.directRuns <= 1
        /\ app.earliest # -1 => app.earliest >= app.debounce

\* C30: a keydown event starts at most one copy function: Ctrl/Cmd+Enter
\* without Shift starts copyFormatted only, Ctrl/Cmd+Shift+Enter starts
\* copyPlain only, and no two clipboard writes of one key event are
\* unsettled at the same time.
StartedBy(e) ==
    IF CopyKey(e) /\ ~e.shiftKey THEN <<"copyFormatted">>
    ELSE IF CopyKey(e) /\ e.shiftKey THEN <<"copyPlain">>
    ELSE <<>>
C30_OneCopyPerKeyEvent ==
    /\ app.started = StartedBy(app.key)
    /\ \A j, k \in DOMAIN app.writes : app.writes[j].key = app.writes[k].key => j = k

====
